---------------------------- MODULE Spec2Model ----------------------------
(***************************************************************************)
(* A model of the instruction-sync extension: the merge of remote and      *)
(* local instruction sources (getInstructionSources) and the sync run      *)
(* (performSync / syncInstructions) with its confirmation session.         *)
(*                                                                         *)
(* Strings are sequences of one-character strings, so that toLowerCase,    *)
(* trim, startsWith and the template-literal concatenations of the source  *)
(* are computed and not assumed.  An optional field of a source            *)
(* (enabled, destinationFolder, destinationFile) is a field that is or is  *)
(* not in the DOMAIN of the record.                                        *)
(***************************************************************************)
EXTENDS Integers, Sequences, FiniteSets, TLC

VARIABLES
    localSources,   \* configuration store: instructionSync.sources
    remoteConfig,   \* what fetchRemoteConfig returns: Null or a RemoteConfig
    merged,         \* result of the last getInstructionSources call
    called,         \* whether getInstructionSources has returned
    workspaceFolders,   \* vscode.workspace.workspaceFolders
    detected,       \* what detectWorkspaceLanguage returns for each folder
    fs,             \* the workspace files: <<folder, fullPath>> -> content
    confirmBeforeSync,  \* configuration store: instructionSync.confirmBeforeSync
    run,            \* the performSync invocations and their syncInstructions calls
    allowed,        \* the performSync invocations the environment triggers
    last,           \* history: what the last step did
    remoteConfigUrl,    \* configuration store: instructionSync.remoteConfigUrl
    remoteConfigCacheDuration,  \* configuration store, in seconds
    now,            \* Date.now(), in milliseconds
    remoteConfigCache,  \* Null or [config, timestamp]
    load,           \* the getInstructionSources call under way
    command,        \* the set-remote-config command under way
    candidate,      \* a content handed to isValidInstructionContent
    validation,     \* what isValidInstructionContent returned for it
    argument,       \* a source and a string handed to one of the helpers
    returned        \* Null or what the helper returned for them

mergeVars == <<localSources, remoteConfig, merged, called>>
remoteVars == <<remoteConfigUrl, remoteConfigCacheDuration, now,
                remoteConfigCache, load, command>>
validatorVars == <<candidate, validation>>
callVars == <<argument, returned>>
envVars == <<localSources, remoteConfig, workspaceFolders, detected, allowed,
             remoteVars, validatorVars, callVars>>
vars == <<localSources, remoteConfig, merged, called, workspaceFolders,
          detected, fs, confirmBeforeSync, run, allowed, last,
          remoteVars, validatorVars, callVars>>

\* null / undefined of the source
Null == [null |-> TRUE]

---------------------------------------------------------------------------
(* Strings *)

UpperChars == <<"A","B","C","D","E","F","G","H","I","J","K","L","M",
                "N","O","P","Q","R","S","T","U","V","W","X","Y","Z">>
LowerChars == <<"a","b","c","d","e","f","g","h","i","j","k","l","m",
                "n","o","p","q","r","s","t","u","v","w","x","y","z">>

\* String.prototype.toLowerCase on one ASCII character
LowerChar(c) ==
    IF \E i \in 1..Len(UpperChars) : UpperChars[i] = c
    THEN LowerChars[CHOOSE i \in 1..Len(UpperChars) : UpperChars[i] = c]
    ELSE c

\* String.prototype.toLowerCase
toLowerCase(s) == [i \in 1..Len(s) |-> LowerChar(s[i])]

\* String.prototype.startsWith
startsWith(s, p) == Len(p) <= Len(s) /\ SubSeq(s, 1, Len(p)) = p

\* String.prototype.includes
includes(s, p) ==
    \E i \in 1..(Len(s) - Len(p) + 1) : SubSeq(s, i, i + Len(p) - 1) = p

\* the white space String.prototype.trim removes (the part of it in use)
WhiteSpace == {" ", "\t", "\n", "\r"}

\* String.prototype.trim
RECURSIVE trimStart(_)
trimStart(s) ==
    IF s # <<>> /\ Head(s) \in WhiteSpace THEN trimStart(Tail(s)) ELSE s

RECURSIVE trimEnd(_)
trimEnd(s) ==
    IF s # <<>> /\ s[Len(s)] \in WhiteSpace
    THEN trimEnd(SubSeq(s, 1, Len(s) - 1)) ELSE s

\* A mutant of trim: the string as it is.
trimNone(s) == s

trim(s) == trimEnd(trimStart(s))

---------------------------------------------------------------------------
(* Destination resolver *)

\* '.github'
DefaultFolder == <<".","g","i","t","h","u","b">>
\* 'copilot-instructions.md'
DefaultFile == <<"c","o","p","i","l","o","t","-","i","n","s","t","r","u",
                 "c","t","i","o","n","s",".","m","d">>

\* A mutant of DestFolder: an empty folder name counts as none.
DestFolderUnlessEmpty(source) ==
    IF "destinationFolder" \in DOMAIN source /\ source.destinationFolder # <<>>
    THEN source.destinationFolder ELSE DefaultFolder

\* source?.destinationFolder ?? '.github'
DestFolder(source) ==
    IF "destinationFolder" \in DOMAIN source
    THEN source.destinationFolder ELSE DefaultFolder

\* source?.destinationFile ?? 'copilot-instructions.md'
DestFile(source) ==
    IF "destinationFile" \in DOMAIN source
    THEN source.destinationFile ELSE DefaultFile

\* getDestinationPath(source): {folder, file, fullPath: `${folder}/${file}`}
getDestinationPath(source) ==
    [folder   |-> DestFolder(source),
     file     |-> DestFile(source),
     fullPath |-> DestFolder(source) \o <<"/">> \o DestFile(source)]

---------------------------------------------------------------------------
(* JSON.parse, for the documents the validator looks at: objects, arrays,  *)
(* strings with the two-character escapes, numbers without exponent, true, *)
(* false and null.                                                         *)

Digits == {"0","1","2","3","4","5","6","7","8","9"}
JsonWhiteSpace == {" ", "\t", "\n", "\r"}

ParseFail == [ok |-> FALSE, pos |-> 0, kind |-> "", str |-> <<>>,
              truthy |-> FALSE, members |-> <<>>, elems |-> <<>>]
Parsed(p, k, s, t, m) ==
    [ok |-> TRUE, pos |-> p, kind |-> k, str |-> s, truthy |-> t, members |-> m,
     elems |-> <<>>]

\* the value that was parsed: its kind, its text, whether it is truthy, the
\* members of an object and the elements of an array
Value(v) ==
    [kind |-> v.kind, str |-> v.str, truthy |-> v.truthy,
     members |-> v.members, elems |-> v.elems]

\* F of the value of x, with x evaluated once
Strict(x, F(_)) == CHOOSE r \in {F(v) : v \in {x}} : TRUE

RECURSIVE skipWs(_, _)
skipWs(s, p) ==
    IF p <= Len(s) /\ s[p] \in JsonWhiteSpace THEN skipWs(s, p + 1) ELSE p

\* the characters of a string literal from q on, up to its closing quote
RECURSIVE scanString(_, _, _)
scanString(s, q, acc) ==
    IF q > Len(s) THEN ParseFail
    ELSE IF s[q] = "\"" THEN Parsed(q + 1, "string", acc, acc # <<>>, <<>>)
    ELSE IF s[q] \in {"\n", "\t", "\r"} THEN ParseFail
    ELSE IF s[q] = "\\"
         THEN IF q + 1 <= Len(s) /\ s[q + 1] \in {"\"", "\\", "/"}
              THEN scanString(s, q + 2, Append(acc, s[q + 1]))
              ELSE ParseFail
    ELSE scanString(s, q + 1, Append(acc, s[q]))

RECURSIVE skipDigits(_, _)
skipDigits(s, p) ==
    IF p <= Len(s) /\ s[p] \in Digits THEN skipDigits(s, p + 1) ELSE p

\* -? (0 | [1-9][0-9]*) (. [0-9]+)?
parseNumber(s, p) ==
    LET i0 == IF s[p] = "-" THEN p + 1 ELSE p
        i1 == IF i0 <= Len(s) /\ s[i0] = "0" THEN i0 + 1 ELSE skipDigits(s, i0)
        f1 == IF i1 <= Len(s) /\ s[i1] = "." THEN skipDigits(s, i1 + 1) ELSE i1
        txt == SubSeq(s, p, f1 - 1)
    IN  IF i1 = i0 \/ (f1 # i1 /\ f1 = i1 + 1) THEN ParseFail
        ELSE Parsed(f1, "number", txt,
                    \E i \in 1..Len(txt) : txt[i] \in Digits \ {"0"}, <<>>)

parseLiteral(s, p, word, kind, truthy) ==
    IF p + Len(word) - 1 <= Len(s) /\ SubSeq(s, p, p + Len(word) - 1) = word
    THEN Parsed(p + Len(word), kind, word, truthy, <<>>)
    ELSE ParseFail

RECURSIVE parseValue(_, _)
RECURSIVE parseMembers(_, _, _)
RECURSIVE parseElements(_, _, _)

parseValue(s, p) ==
    IF p > Len(s) THEN ParseFail
    ELSE IF s[p] = "\"" THEN scanString(s, p + 1, <<>>)
    ELSE IF s[p] = "{" THEN
        LET q == skipWs(s, p + 1)
        IN  IF q <= Len(s) /\ s[q] = "}"
            THEN Parsed(q + 1, "object", <<>>, TRUE, <<>>)
            ELSE parseMembers(s, q, <<>>)
    ELSE IF s[p] = "[" THEN
        LET q == skipWs(s, p + 1)
        IN  IF q <= Len(s) /\ s[q] = "]"
            THEN Parsed(q + 1, "array", <<>>, TRUE, <<>>)
            ELSE parseElements(s, q, <<>>)
    ELSE IF s[p] = "t" THEN parseLiteral(s, p, <<"t","r","u","e">>, "true", TRUE)
    ELSE IF s[p] = "f"
         THEN parseLiteral(s, p, <<"f","a","l","s","e">>, "false", FALSE)
    ELSE IF s[p] = "n" THEN parseLiteral(s, p, <<"n","u","l","l">>, "null", FALSE)
    ELSE IF s[p] = "-" \/ s[p] \in Digits THEN parseNumber(s, p)
    ELSE ParseFail

\* "key" : value ( , "key" : value )* }   from q on, acc the members so far
parseMembers(s, q, acc) ==
    IF q > Len(s) \/ s[q] # "\"" THEN ParseFail
    ELSE Strict(scanString(s, q + 1, <<>>), LAMBDA k :
         LET c == IF k.ok THEN skipWs(s, k.pos) ELSE 0
         IN  IF ~k.ok \/ c > Len(s) \/ s[c] # ":" THEN ParseFail
             ELSE Strict(parseValue(s, skipWs(s, c + 1)), LAMBDA v :
                  LET e == IF v.ok THEN skipWs(s, v.pos) ELSE 0
                      m == Append(acc, [key |-> k.str, val |-> Value(v)])
                  IN  IF ~v.ok \/ e > Len(s) THEN ParseFail
                      ELSE IF s[e] = "}"
                      THEN Parsed(e + 1, "object", <<>>, TRUE, m)
                      ELSE IF s[e] = ","
                      THEN parseMembers(s, skipWs(s, e + 1), m)
                      ELSE ParseFail))

\* value ( , value )* ]   from q on, acc the elements so far
parseElements(s, q, acc) ==
    Strict(parseValue(s, q), LAMBDA v :
    LET e == IF v.ok THEN skipWs(s, v.pos) ELSE 0
        m == Append(acc, Value(v))
    IN  IF ~v.ok \/ e > Len(s) THEN ParseFail
        ELSE IF s[e] = "]"
        THEN [Parsed(e + 1, "array", <<>>, TRUE, <<>>) EXCEPT !.elems = m]
        ELSE IF s[e] = "," THEN parseElements(s, skipWs(s, e + 1), m)
        ELSE ParseFail)

\* JSON.parse(content): ParseFail when it throws
JSONParse(s) ==
    Strict(s, LAMBDA t :
    Strict(parseValue(t, skipWs(t, 1)), LAMBDA v :
    IF v.ok /\ skipWs(t, v.pos) = Len(t) + 1 THEN v ELSE ParseFail))

\* json.<name> is truthy: the last member of that name, if any, is truthy
Truthy(json, name) ==
    \E i \in 1..Len(json.members) :
        /\ json.members[i].key = name
        /\ \A j \in (i + 1)..Len(json.members) : json.members[j].key # name
        /\ json.members[i].val.truthy

\* the text of json.<name>
MemberText(json, name) ==
    LET i == CHOOSE i \in 1..Len(json.members) :
                /\ json.members[i].key = name
                /\ \A j \in (i + 1)..Len(json.members) :
                       json.members[j].key # name
    IN  json.members[i].val.str

---------------------------------------------------------------------------
(* Content validator: isValidInstructionContent *)

\* htmlErrorIndicators
htmlErrorIndicators ==
    << <<"<","!","d","o","c","t","y","p","e"," ","h","t","m","l">>,
       <<"<","h","t","m","l">>,
       <<"<","h","e","a","d",">">>,
       <<"<","t","i","t","l","e",">","4","0","4">>,
       <<"<","t","i","t","l","e",">","4","0","1">>,
       <<"<","t","i","t","l","e",">","4","0","3">>,
       <<"<","t","i","t","l","e",">","5","0","0">>,
       <<"p","a","g","e"," ","n","o","t"," ","f","o","u","n","d">>,
       <<"a","c","c","e","s","s"," ","d","e","n","i","e","d">>,
       <<"u","n","a","u","t","h","o","r","i","z","e","d">>,
       <<"s","i","g","n"," ","i","n"," ","t","o">>,
       <<"l","o","g","i","n"," ","r","e","q","u","i","r","e","d">> >>

Msg_message == <<"m","e","s","s","a","g","e">>
Msg_error == <<"e","r","r","o","r">>
Msg_errors == <<"e","r","r","o","r","s">>

\* isValidInstructionContent(content, source): {valid, reason?}; the reason is
\* kept as its kind and, for an API error, the interpolated value.
isValidInstructionContent(content) ==
    Strict(toLowerCase(content), LAMBDA lowerContent :
    Strict(trim(lowerContent), LAMBDA trimmedLower :
    Strict(IF startsWith(trimmedLower, <<"{">>) THEN JSONParse(content)
           ELSE ParseFail, LAMBDA json :
        IF Len(content) = 0 \/ Len(trim(content)) = 0
        THEN [valid |-> FALSE, reason |-> "Empty content received", detail |-> <<>>]
        ELSE IF \/ startsWith(trimmedLower, <<"<","!","d","o","c","t","y","p","e">>)
                \/ startsWith(trimmedLower, <<"<","h","t","m","l">>)
        THEN IF \E i \in 1..Len(htmlErrorIndicators) :
                    includes(lowerContent, htmlErrorIndicators[i])
             THEN [valid |-> FALSE,
                   reason |-> "Received HTML error page instead of instructions content",
                   detail |-> <<>>]
             ELSE [valid |-> FALSE,
                   reason |-> "Received HTML content instead of Markdown instructions",
                   detail |-> <<>>]
        ELSE IF /\ startsWith(trimmedLower, <<"{">>)
                /\ json.ok
                /\ \/ Truthy(json, Msg_message)
                   \/ Truthy(json, Msg_error)
                   \/ Truthy(json, Msg_errors)
        THEN [valid |-> FALSE, reason |-> "API error: ",
              detail |-> IF Truthy(json, Msg_message)
                         THEN MemberText(json, Msg_message)
                         ELSE IF Truthy(json, Msg_error)
                         THEN MemberText(json, Msg_error)
                         ELSE <<"U","n","k","n","o","w","n"," ","e","r","r","o","r">>]
        ELSE [valid |-> TRUE, reason |-> "", detail |-> <<>>])))

---------------------------------------------------------------------------
(* Source merge: getInstructionSources *)

\* A mutant of sourceKey: the key is the language alone.
sourceKeyLanguageOnly(s) == toLowerCase(s.language)

\* sourceKey: `${s.language.toLowerCase()}::${fullPath}`
sourceKey(s) ==
    toLowerCase(s.language) \o <<":",":">> \o getDestinationPath(s).fullPath

\* Map.prototype.set on a Map kept as a sequence of [key, value] in insertion
\* order: an existing key keeps its position and gets the new value.
MapSet(m, k, v) ==
    IF \E i \in 1..Len(m) : m[i].key = k
    THEN [i \in 1..Len(m) |-> IF m[i].key = k THEN [key |-> k, value |-> v]
                                             ELSE m[i]]
    ELSE Append(m, [key |-> k, value |-> v])

\* for (const source of list) { merged.set(sourceKey(source), source); }
RECURSIVE SetAll(_, _)
SetAll(m, list) ==
    IF list = <<>> THEN m
    ELSE SetAll(MapSet(m, sourceKey(Head(list)), Head(list)), Tail(list))

\* Array.from(merged.values())
MapValues(m) == [i \in 1..Len(m) |-> m[i].value]

\* !remoteConfig?.sources || remoteConfig.sources.length === 0
NoRemoteSources(rc) ==
    \/ rc = Null
    \/ "sources" \notin DOMAIN rc
    \/ Len(rc.sources) = 0

\* getInstructionSources, given what fetchRemoteConfig returned
MergeSources(rc, local) ==
    IF NoRemoteSources(rc) THEN local
    ELSE IF Len(local) = 0 THEN rc.sources
    ELSE MapValues(SetAll(SetAll(<<>>, rc.sources), local))

---------------------------------------------------------------------------
(* Content fetcher: isLocalPath, fetchContent *)

Letters == {UpperChars[i] : i \in 1..Len(UpperChars)}
               \cup {LowerChars[i] : i \in 1..Len(LowerChars)}

\* isLocalPath(source)
isLocalPath(source) ==
    \/ startsWith(source, <<"f","i","l","e",":","/","/">>)
    \/ /\ Len(source) >= 3
       /\ source[1] \in Letters
       /\ source[2] = ":"
       /\ source[3] \in {"\\", "/"}
    \/ /\ startsWith(source, <<"/">>)
       /\ ~startsWith(source, <<"/","/">>)

\* fetchContent(source), given what the file store or the network answered:
\* resp.ok is "readFile returned" for a local path and response.ok for a URL.
\* The result is [threw, content].
fetchContent(source, resp) ==
    IF isLocalPath(source)
    THEN [threw |-> ~resp.ok, content |-> resp.content]
    ELSE IF ~resp.ok THEN [threw |-> TRUE, content |-> resp.content]
    ELSE IF ~isValidInstructionContent(resp.content).valid
         THEN [threw |-> TRUE, content |-> resp.content]
    ELSE [threw |-> FALSE, content |-> resp.content]

---------------------------------------------------------------------------
(* The sync run: performSync and syncInstructions *)

\* localContent === null: no string equals it
NullContent == <<"null">>

\* performSync invocations
Runs == {1, 2}

IdleRun ==
    [pc |-> "idle", show |-> FALSE, sources |-> <<>>, i |-> 0, j |-> 0,
     langs |-> <<>>, confirmAll |-> FALSE, calls |-> {}, fetched |-> {},
     answered |-> [ans |-> "", root |-> 0, src |-> 0], hadError |-> FALSE]

\* A step of a run.  When the step returns from syncInstructions (next is
\* "return"), value is what the promise resolves to: true after the write,
\* false where the call declined, found the file up to date or caught an
\* error.
Step(r, i, j, op, ok, content, ans, next, outcome, msg) ==
    [run |-> r, root |-> i, src |-> j, op |-> op, ok |-> ok,
     content |-> content, ans |-> ans, next |-> next, outcome |-> outcome,
     msg |-> msg, value |-> outcome = "updated"]

\* A mutant of Disabled: the enabled field is not looked at.
NeverDisabled(source) == FALSE

\* source.enabled === false
Disabled(source) == "enabled" \in DOMAIN source /\ source.enabled = FALSE

\* detectedLanguages.find(lang => lang.toLowerCase() === source.language.toLowerCase())
matchingLanguage(langs, source) ==
    \E n \in 1..Len(langs) :
        toLowerCase(langs[n]) = toLowerCase(source.language)

\* the sources of the list from index j on that the loop body syncs
Matching(sources, langs, j) ==
    {k \in j..Len(sources) :
        ~Disabled(sources[k]) /\ matchingLanguage(langs, sources[k])}

Min(S) == CHOOSE x \in S : \A y \in S : x <= y

\* A mutant of AfterSync: break after the first matching source.
AfterSyncBreak(k, n) == n + 1

\* A mutant of AfterSync: the loop stays at the source it has synced.
AfterSyncAgain(k, n) == k

\* where the loop over the sources goes on after syncing source k of n
AfterSync(k, n) == k + 1

\* A mutant of Awaited: syncInstructions is called and not awaited.
NotAwaited(rr) == TRUE

\* await syncInstructions(...): the loop goes on when the call has returned
Awaited(rr) == rr.calls = {}

\* const sources = await getInstructionSources(); const session = {confirmAll: false}
StartSync(r, show) ==
    /\ run[r].pc = "idle"
    /\ r \in allowed
    /\ LET sources == MergeSources(remoteConfig, localSources)
           none == Len(workspaceFolders) = 0 \/ Len(sources) = 0
       IN  /\ run' = [run EXCEPT ![r] =
                        [IdleRun EXCEPT !.pc = IF none THEN "done" ELSE "detect",
                                        !.show = show,
                                        !.sources = IF none THEN <<>> ELSE sources,
                                        !.i = 1]]
           /\ last' = Step(r, 0, 0, "start", TRUE, <<>>, "", "",
                           "", IF none /\ show
                               THEN (IF Len(workspaceFolders) = 0
                                     THEN "warning" ELSE "info")
                               ELSE "")
    /\ UNCHANGED <<envVars, merged, called, fs, confirmBeforeSync>>

\* the folder after folder i, or the end of the run
NextFolder(rr) ==
    [rr EXCEPT !.i = rr.i + 1, !.j = 0, !.langs = <<>>,
               !.pc = IF rr.i = Len(workspaceFolders) THEN "done" ELSE "detect"]

\* const detectedLanguages = await detectWorkspaceLanguage(workspaceFolder)
Detect(r) ==
    /\ run[r].pc = "detect"
    /\ LET langs == detected[workspaceFolders[run[r].i]]
       IN  run' = [run EXCEPT ![r] =
                     IF Len(langs) = 0 THEN NextFolder(run[r])
                     ELSE [run[r] EXCEPT !.langs = langs, !.j = 1, !.pc = "loop"]]
    /\ last' = Step(r, run[r].i, 0, "detect", TRUE, <<>>, "", "", "", "")
    /\ UNCHANGED <<envVars, merged, called, fs, confirmBeforeSync>>

\* for (const source of sources) { ... await syncInstructions(...) }
NextSource(r) ==
    /\ run[r].pc = "loop"
    /\ Awaited(run[r])
    /\ LET rr == run[r]
           m == Matching(rr.sources, rr.langs, rr.j)
           k == Min(m)
       IN  IF m = {}
           THEN /\ run' = [run EXCEPT ![r] = NextFolder(rr)]
                /\ last' = Step(r, rr.i, 0, "next", TRUE, <<>>, "", "", "", "")
           ELSE /\ run' = [run EXCEPT ![r] =
                    [rr EXCEPT !.j = AfterSync(k, Len(rr.sources)),
                               !.fetched = @ \cup {<<rr.i, k>>},
                               !.calls = @ \cup
                                   {[root |-> rr.i, src |-> k,
                                     folder |-> workspaceFolders[rr.i],
                                     source |-> rr.sources[k],
                                     pc |-> "fetch",
                                     remoteContent |-> <<>>,
                                     localContent |-> <<>>,
                                     show |-> rr.show,
                                     requireConfirmation |-> TRUE,
                                     hasSession |-> TRUE]}]]
                /\ last' = Step(r, rr.i, k, "call", TRUE, <<>>, "", "fetch", "", "")
    /\ UNCHANGED <<envVars, merged, called, fs, confirmBeforeSync>>

\* the call c of run r goes on as c2
SetCall(r, c, c2) == [run EXCEPT ![r].calls = (@ \ {c}) \cup {c2}]

\* the call c of run r returns; failed tells whether its catch block ran
EndCall(r, c, failed) ==
    [run EXCEPT ![r].calls = @ \ {c}, ![r].hadError = @ \/ failed]

\* catch (error) { showErrorMessage(...); return false; }
Caught(r, c, op, ok, content) ==
    /\ run' = EndCall(r, c, TRUE)
    /\ last' = Step(r, c.root, c.src, op, ok, content, "", "return", "error", "error")

\* const remoteContent = await fetchContent(source.url)
FetchReturns(r, c, resp) ==
    /\ c \in run[r].calls
    /\ c.pc = "fetch"
    /\ LET res == fetchContent(c.source.url, resp)
       IN  IF res.threw
           THEN Caught(r, c, "fetch", resp.ok, resp.content)
           ELSE /\ run' = SetCall(r, c, [c EXCEPT !.pc = "read",
                                                  !.remoteContent = res.content])
                /\ last' = Step(r, c.root, c.src, "fetch", resp.ok, resp.content,
                                "", "read", "", "")
    /\ UNCHANGED <<envVars, merged, called, fs, confirmBeforeSync>>

\* getLocalInstructions: the file's content, or null when it cannot be read
getLocalInstructions(folder, source) ==
    fs[<<folder, getDestinationPath(source).fullPath>>]

\* A mutant of SessionConfirmAll: one session for all the runs.
SessionShared(r, c) == c.hasSession /\ \E q \in Runs : run[q].confirmAll

\* A mutant of SessionConfirmAll: the session is not looked at.
SessionIgnored(r, c) == FALSE

\* session?.confirmAll
SessionConfirmAll(r, c) == c.hasSession /\ run[r].confirmAll

\* A mutant of Differs: the contents are not compared.
AlwaysDiffers(localContent, remoteContent) == TRUE

\* A mutant of Differs: a missing file is taken as up to date.
DiffersWhenPresent(localContent, remoteContent) ==
    localContent # NullContent /\ localContent # remoteContent

\* localContent !== remoteContent
Differs(localContent, remoteContent) == localContent # remoteContent

\* A mutant of Ask: the preference is not read.
AskWhateverThePreference(r, c) ==
    c.requireConfirmation /\ ~SessionConfirmAll(r, c)

\* requireConfirmation && !session?.confirmAll, and then
\* config.get('confirmBeforeSync', true)
Ask(r, c) ==
    /\ c.requireConfirmation
    /\ ~SessionConfirmAll(r, c)
    /\ confirmBeforeSync

\* const localContent = await getLocalInstructions(...);
\* if (localContent !== remoteContent) { confirmation gate } else { up to date }
ReadReturns(r, c) ==
    /\ c \in run[r].calls
    /\ c.pc = "read"
    /\ LET localContent == getLocalInstructions(c.folder, c.source)
           ask == Ask(r, c)
       IN  IF Differs(localContent, c.remoteContent)
           THEN /\ run' = SetCall(r, c,
                            [c EXCEPT !.pc = IF ask THEN "prompt" ELSE "write",
                                      !.localContent = localContent])
                /\ last' = Step(r, c.root, c.src, "read", TRUE, localContent, "",
                                IF ask THEN "prompt" ELSE "write", "", "")
           ELSE /\ run' = EndCall(r, c, FALSE)
                /\ last' = Step(r, c.root, c.src, "read", TRUE, localContent, "",
                                "return", "uptodate",
                                IF c.show THEN "info" ELSE "")
    /\ UNCHANGED <<envVars, merged, called, fs, confirmBeforeSync>>

\* the choices of the warning dialog; "undefined" is the dismissed dialog
Answers == {"Yes", "Yes to All", "No", "Always (disable confirmation)", "undefined"}

\* A mutant of Declined: a dismissed dialog does not decline.
DeclinedNoOnly(result) == result = "No"

\* result === 'No' || result === undefined
Declined(result) == result = "No" \/ result = "undefined"

\* A mutant of confirmAllAfter: every approval confirms all.
confirmAllAfterAnyYes(result, hasSession, confirmAll) ==
    IF result \in {"Yes", "Yes to All"} /\ hasSession THEN TRUE ELSE confirmAll

\* A mutant of confirmAllAfter: "Always" confirms all as well.
confirmAllAfterAlways(result, hasSession, confirmAll) ==
    IF result \in {"Yes to All", "Always (disable confirmation)"} /\ hasSession
    THEN TRUE ELSE confirmAll

\* if (result === 'Yes to All' && session) { session.confirmAll = true; }
confirmAllAfter(result, hasSession, confirmAll) ==
    IF result = "Yes to All" /\ hasSession THEN TRUE ELSE confirmAll

\* A mutant of AfterAnswer: the preference is not updated before the write.
AfterAnswerWrite(result) == "write"

\* if (result === 'Always (disable confirmation)') { await config.update(...) }
\* await writeLocalInstructions(...)
AfterAnswer(result) ==
    IF result = "Always (disable confirmation)" THEN "update" ELSE "write"

\* const result = await vscode.window.showWarningMessage(...)
PromptReturns(r, c, result) ==
    /\ c \in run[r].calls
    /\ c.pc = "prompt"
    /\ IF Declined(result)
       THEN /\ run' = [EndCall(r, c, FALSE) EXCEPT ![r].answered =
                            [ans |-> result, root |-> c.root, src |-> c.src]]
            /\ last' = Step(r, c.root, c.src, "prompt", TRUE, <<>>, result,
                            "return", "skipped", "")
       ELSE /\ run' =
                [SetCall(r, c,
                    [c EXCEPT !.pc = AfterAnswer(result)])
                 EXCEPT ![r].confirmAll = confirmAllAfter(result, c.hasSession, @),
                        ![r].answered =
                            [ans |-> result, root |-> c.root, src |-> c.src]]
            /\ last' = Step(r, c.root, c.src, "prompt", TRUE, <<>>, result,
                            AfterAnswer(result), "", "")
    /\ UNCHANGED <<envVars, merged, called, fs, confirmBeforeSync>>

\* await config.update('confirmBeforeSync', false, ConfigurationTarget.Global)
UpdateReturns(r, c, ok) ==
    /\ c \in run[r].calls
    /\ c.pc = "update"
    /\ IF ok
       THEN /\ run' = SetCall(r, c, [c EXCEPT !.pc = "write"])
            /\ confirmBeforeSync' = FALSE
            /\ last' = Step(r, c.root, c.src, "update", TRUE, <<>>, "", "write", "", "")
       ELSE /\ Caught(r, c, "update", FALSE, <<>>)
            /\ UNCHANGED confirmBeforeSync
    /\ UNCHANGED <<envVars, merged, called, fs>>

\* await writeLocalInstructions(workspaceFolder, remoteContent, source)
WriteReturns(r, c, ok) ==
    /\ c \in run[r].calls
    /\ c.pc = "write"
    /\ IF ok
       THEN /\ fs' = [fs EXCEPT ![<<c.folder, getDestinationPath(c.source).fullPath>>]
                                    = c.remoteContent]
            /\ run' = EndCall(r, c, FALSE)
            /\ last' = Step(r, c.root, c.src, "write", TRUE, c.remoteContent, "",
                            "return", "updated", IF c.show THEN "info" ELSE "")
       ELSE /\ Caught(r, c, "write", FALSE, c.remoteContent)
            /\ UNCHANGED fs
    /\ UNCHANGED <<envVars, merged, called, confirmBeforeSync>>

---------------------------------------------------------------------------
(* URL classifiers: new URL(url), isGitHubUrl, isAzureDevOpsUrl *)

\* new URL(url) without a base, as far as hostname and pathname go:
\* leading and trailing white space is stripped; a scheme is a letter
\* followed by letters, digits, "+", "-" and "." up to the first ":";
\* after a special scheme any run of "/" and "\" is skipped, the authority
\* goes up to the next "/", "\", "?" or "#", its host (what follows the
\* last at-sign, up to the port) must not be empty and is lower-cased, and
\* the path goes up to "?" or "#", "\" read as "/" and the empty path as
\* "/"; after another scheme an authority is read only behind "//".  The
\* result has ok = FALSE when the constructor throws.  Dot segments,
\* percent-encoding, IPv6 and IPv4 hosts are not among the inputs.
URLParse(url) ==
    LET FirstIn(x, p, set) ==
            Min({i \in p..Len(x) : x[i] \in set} \cup {Len(x) + 1})
        LastAt(x) ==
            IF \E i \in 1..Len(x) : x[i] = "@"
            THEN CHOOSE i \in 1..Len(x) :
                    x[i] = "@" /\ \A j \in (i + 1)..Len(x) : x[j] # "@"
            ELSE 0
        HostPort(authority) ==
            SubSeq(authority, LastAt(authority) + 1, Len(authority))
        HostOf(authority) ==
            SubSeq(HostPort(authority), 1,
                   FirstIn(HostPort(authority), 1, {":"}) - 1)
        PortOk(authority) ==
            \A i \in (FirstIn(HostPort(authority), 1, {":"}) + 1)
                        ..Len(HostPort(authority)) :
                HostPort(authority)[i] \in Digits
        SpecialSchemes == {<<"h","t","t","p">>, <<"h","t","t","p","s">>, <<"f","t","p">>, <<"w","s">>, <<"w","s","s">>}
        ForbiddenHostChars == {" ", "<", ">", "[", "]", "^", "|"}
        UrlFail == [ok |-> FALSE, hostname |-> <<>>, pathname |-> <<>>]
        s == trim(url)
        c == FirstIn(s, 1, {":"})
        scheme == toLowerCase(SubSeq(s, 1, c - 1))
        rest == SubSeq(s, c + 1, Len(s))
    IN  IF \/ c > Len(s)
           \/ c = 1
           \/ s[1] \notin Letters
           \/ \E i \in 2..(c - 1) :
                  s[i] \notin Letters \cup Digits \cup {"+", "-", "."}
        THEN UrlFail
        ELSE IF scheme \in SpecialSchemes
        THEN LET start == Min({i \in 1..Len(rest) : rest[i] \notin {"/", "\\"}}
                                \cup {Len(rest) + 1})
                 authEnd == FirstIn(rest, start, {"/", "\\", "?", "#"})
                 authority == SubSeq(rest, start, authEnd - 1)
                 host == HostOf(authority)
                 pathEnd == FirstIn(rest, authEnd, {"?", "#"})
                 rawPath == SubSeq(rest, authEnd, pathEnd - 1)
             IN  IF \/ host = <<>>
                    \/ ~PortOk(authority)
                    \/ \E i \in 1..Len(host) : host[i] \in ForbiddenHostChars
                 THEN UrlFail
                 ELSE [ok |-> TRUE,
                       hostname |-> toLowerCase(host),
                       pathname |-> IF rawPath = <<>> THEN <<"/">>
                                    ELSE [i \in 1..Len(rawPath) |->
                                            IF rawPath[i] = "\\" THEN "/"
                                            ELSE rawPath[i]]]
        ELSE IF startsWith(rest, <<"/", "/">>)
        THEN LET authEnd == FirstIn(rest, 3, {"/", "?", "#"})
                 authority == SubSeq(rest, 3, authEnd - 1)
                 pathEnd == FirstIn(rest, authEnd, {"?", "#"})
             IN  IF ~PortOk(authority) THEN UrlFail
                 ELSE [ok |-> TRUE,
                       hostname |-> HostOf(authority),
                       pathname |-> SubSeq(rest, authEnd, pathEnd - 1)]
        ELSE [ok |-> TRUE,
              hostname |-> <<>>,
              pathname |-> SubSeq(rest, 1, FirstIn(rest, 1, {"?", "#"}) - 1)]

\* A mutant of endsWith: the suffix may stand anywhere.
endsWithAnywhere(s, p) == includes(s, p)

\* s.endsWith(p)
endsWith(s, p) ==
    Len(p) <= Len(s) /\ SubSeq(s, Len(s) - Len(p) + 1, Len(s)) = p

\* isGitHubUrl(url): {isGitHub, isEnterprise}; the hosts are 'github.com'
\* and 'raw.githubusercontent.com', the suffixes '.ghe.com' and
\* '.github.com'
isGitHubUrl(url) ==
    LET parsedUrl == URLParse(url)
        hostname == toLowerCase(parsedUrl.hostname)
    IN  IF ~parsedUrl.ok THEN [isGitHub |-> FALSE, isEnterprise |-> FALSE]
        ELSE IF \/ hostname = <<"g","i","t","h","u","b",".","c","o","m">>
                \/ hostname =
                     <<"r","a","w",".","g","i","t","h","u","b","u","s","e","r","c","o","n","t","e","n","t",".","c","o","m">>
        THEN [isGitHub |-> TRUE, isEnterprise |-> FALSE]
        ELSE IF \/ endsWith(hostname, <<".","g","h","e",".","c","o","m">>)
                \/ endsWith(hostname, <<".","g","i","t","h","u","b",".","c","o","m">>)
        THEN [isGitHub |-> TRUE, isEnterprise |-> TRUE]
        ELSE [isGitHub |-> FALSE, isEnterprise |-> FALSE]

\* A mutant of isAzureDevOpsUrl: the markers are searched in the whole URL.
isAzureDevOpsUrlAnywhere(url) ==
    LET parsedUrl == URLParse(url)
        hostname == toLowerCase(parsedUrl.hostname)
    IN  /\ parsedUrl.ok
        /\ \/ hostname = <<"d","e","v",".","a","z","u","r","e",".","c","o","m">>
           \/ endsWith(hostname, <<".","v","i","s","u","a","l","s","t","u","d","i","o",".","c","o","m">>)
           \/ includes(url, <<"/","_","a","p","i","s","/">>)
           \/ includes(url, <<"/","_","g","i","t","/">>)

\* isAzureDevOpsUrl(url): the host 'dev.azure.com', the suffix
\* '.visualstudio.com', the markers '/_apis/' and '/_git/'
isAzureDevOpsUrl(url) ==
    LET parsedUrl == URLParse(url)
        hostname == toLowerCase(parsedUrl.hostname)
    IN  /\ parsedUrl.ok
        /\ \/ hostname = <<"d","e","v",".","a","z","u","r","e",".","c","o","m">>
           \/ endsWith(hostname, <<".","v","i","s","u","a","l","s","t","u","d","i","o",".","c","o","m">>)
           \/ includes(parsedUrl.pathname, <<"/","_","a","p","i","s","/">>)
           \/ includes(parsedUrl.pathname, <<"/","_","g","i","t","/">>)

---------------------------------------------------------------------------
(* The environment of a sync run *)

\* '# A', '# B', ' \n', '<html>'
MdA == <<"#"," ","A">>
MdB == <<"#"," ","B">>
Blank == <<" ","\n">>
HtmlPage == <<"<","h","t","m","l",">">>

\* what a read of a source file or a request of a source URL may answer
Responses ==
    {[ok |-> FALSE, content |-> <<>>]}
        \cup {[ok |-> TRUE, content |-> x] : x \in {MdA, MdB, Blank, HtmlPage}}

---------------------------------------------------------------------------
(* The merge on its own: every pair of a remote configuration and a local  *)
(* source list over a pool of sources, lists of at most MaxLen entries.    *)

MaxLen == 2

\* 'AL', 'al', 'C#'
LangAL == <<"A","L">>
Langal == <<"a","l">>
LangCS == <<"C","#">>

\* 'https://e/a', 'https://e/b'
UrlA == <<"h","t","t","p","s",":","/","/","e","/","a">>
UrlB == <<"h","t","t","p","s",":","/","/","e","/","b">>

\* The pool: same key under another case and with the defaults written out
\* (P1, P2), same language and another destination (P3), two destinations
\* that join to the same fullPath (P4, P5).
P1 == [language |-> LangAL, url |-> UrlA]
P2 == [language |-> Langal, url |-> UrlB, enabled |-> FALSE,
       destinationFolder |-> DefaultFolder, destinationFile |-> DefaultFile]
P3 == [language |-> LangAL, url |-> UrlB, destinationFile |-> <<"f">>]
P4 == [language |-> LangCS, url |-> UrlA,
       destinationFolder |-> <<"d","/","e">>, destinationFile |-> <<"f">>]
P5 == [language |-> LangCS, url |-> UrlB,
       destinationFolder |-> <<"d">>, destinationFile |-> <<"e","/","f">>]
P6 == [language |-> LangCS, url |-> UrlA, enabled |-> TRUE]
Pool == {P1, P2, P3, P4, P5, P6}

SeqsUpTo(S, n) == UNION {[1..k -> S] : k \in 0..n}

\* the workspace folders, and what is not yet running
Folders == {"w1", "w2"}

InitRun ==
    /\ run = [r \in Runs |-> IdleRun]
    /\ merged = <<>>
    /\ called = FALSE
    /\ last = Step(0, 0, 0, "init", TRUE, <<>>, "", "", "", "")

\* remoteConfigCacheDuration defaults to 3600 seconds, taken times 1000
DefaultCacheDuration == 3600
MsPerSecond == 1000

\* no getInstructionSources call under way; forceRefresh is the argument
\* of the latest call and url the remoteConfigUrl it read
NoLoad == [pc |-> "idle", forceRefresh |-> FALSE, url |-> <<>>]

\* let remoteConfigCache = null; no remote configuration URL is set
InitNoLoad ==
    /\ remoteConfigUrl = <<>>
    /\ remoteConfigCacheDuration = DefaultCacheDuration
    /\ now = 0
    /\ remoteConfigCache = Null
    /\ load = NoLoad
    /\ command = [pc |-> "idle", url |-> <<>>]

\* no content was handed to the validator
InitNoContent ==
    /\ candidate = <<>>
    /\ validation = Null

\* no helper was called on its own
InitNoCall ==
    /\ argument = Null
    /\ returned = Null

InitIdle == InitRun /\ InitNoLoad /\ InitNoContent /\ InitNoCall

InitMerge ==
    /\ localSources \in SeqsUpTo(Pool, MaxLen)
    /\ remoteConfig \in {Null, [syncOnOpen |-> TRUE]}
                        \cup {[sources |-> q] : q \in SeqsUpTo(Pool, MaxLen)}
    /\ workspaceFolders = <<>>
    /\ detected = [f \in Folders |-> <<>>]
    /\ fs = [k \in {} |-> NullContent]
    /\ confirmBeforeSync = TRUE
    /\ allowed = {}
    /\ InitIdle

\* const sources = await getInstructionSources(forceRefresh)
GetInstructionSources ==
    /\ ~called
    /\ merged' = MergeSources(remoteConfig, localSources)
    /\ called' = TRUE
    /\ UNCHANGED <<envVars, fs, confirmBeforeSync, run, last>>

NextMerge == GetInstructionSources

SpecMerge == InitMerge /\ [][NextMerge]_vars

---------------------------------------------------------------------------
(* The sync run in its environment *)

\* '/p': a local path
UrlLocal == <<"/","p">>
\* 'Go'
LangGo == <<"G","o">>

\* Sources of a run: two destinations for one language written in two cases
\* (Q1, Q2), a local path with the destination of Q2 under another language
\* (Q3), a disabled source with the key of Q1 (Q4), a language no folder
\* has (Q5).
Q1 == [language |-> LangAL, url |-> UrlA]
Q2 == [language |-> Langal, url |-> UrlB, destinationFile |-> <<"f">>]
Q3 == [language |-> LangCS, url |-> UrlLocal, destinationFile |-> <<"f">>]
Q4 == [language |-> LangAL, url |-> UrlB, enabled |-> FALSE]
Q5 == [language |-> LangGo, url |-> UrlA]

\* the configurations a run starts from: what fetchRemoteConfig returns and
\* the local source list
Configurations ==
    { [remote |-> Null, local |-> <<Q1, Q2>>],
      [remote |-> [sources |-> <<Q4, Q3>>], local |-> <<Q1>>],
      [remote |-> [sources |-> <<Q1, Q5>>], local |-> <<Q4, Q2>>],
      [remote |-> [sources |-> <<Q5, Q1, Q3>>], local |-> <<>>],
      [remote |-> Null, local |-> <<>>] }

DestPaths == {getDestinationPath(q).fullPath : q \in {Q1, Q2, Q3, Q4, Q5}}

\* what detectWorkspaceLanguage returns for the folders w1 and w2
Detection(l1, l2) == [f \in Folders |-> IF f = "w1" THEN l1 ELSE l2]
Detections ==
    { Detection(<<LangCS, LangAL>>, <<LangAL>>),
      Detection(<<>>, <<LangCS, LangAL>>),
      Detection(<<LangAL>>, <<>>) }

Init ==
    /\ \E cf \in Configurations :
          /\ remoteConfig = cf.remote
          /\ localSources = cf.local
    /\ workspaceFolders \in {<<>>, <<"w1", "w2">>}
    /\ detected \in Detections
    /\ \E c0 \in {NullContent, MdA} : fs = [k \in Folders \X DestPaths |-> c0]
    /\ confirmBeforeSync \in BOOLEAN
    /\ allowed = {1}
    /\ InitIdle

Next ==
    \/ \E r \in Runs, show \in BOOLEAN : StartSync(r, show)
    \/ \E r \in Runs : Detect(r)
    \/ \E r \in Runs : NextSource(r)
    \/ \E r \in Runs : \E c \in run[r].calls : \E resp \in Responses :
            FetchReturns(r, c, resp)
    \/ \E r \in Runs : \E c \in run[r].calls : ReadReturns(r, c)
    \/ \E r \in Runs : \E c \in run[r].calls : \E result \in Answers :
            PromptReturns(r, c, result)
    \/ \E r \in Runs : \E c \in run[r].calls : \E ok \in BOOLEAN :
            UpdateReturns(r, c, ok)
    \/ \E r \in Runs : \E c \in run[r].calls : \E ok \in BOOLEAN :
            WriteReturns(r, c, ok)

Spec == Init /\ [][Next]_vars

\* The run when every external call returns or fails: a step of the run that
\* can be taken is taken in the end.
SpecFair ==
    /\ Spec
    /\ WF_vars(\E r \in Runs :
                  \/ Detect(r)
                  \/ NextSource(r)
                  \/ \E c \in run[r].calls :
                        \/ \E resp \in Responses : FetchReturns(r, c, resp)
                        \/ ReadReturns(r, c)
                        \/ \E result \in Answers : PromptReturns(r, c, result)
                        \/ \E ok \in BOOLEAN : UpdateReturns(r, c, ok)
                        \/ \E ok \in BOOLEAN : WriteReturns(r, c, ok))

\* Two runs that may overlap: the configuration watcher and the timer call
\* performSync without awaiting it, and a command may be invoked while a run
\* is at a prompt. One configuration of two sources of one language.
InitTwo ==
    /\ remoteConfig = Null
    /\ localSources = <<Q1, Q2>>
    /\ workspaceFolders = <<"w1">>
    /\ detected = Detection(<<LangAL>>, <<>>)
    /\ \E c0 \in {NullContent, MdA} : fs = [k \in Folders \X DestPaths |-> c0]
    /\ confirmBeforeSync = TRUE
    /\ allowed = Runs
    /\ InitIdle

NextTwo ==
    \/ \E r \in Runs : StartSync(r, FALSE)
    \/ \E r \in Runs : Detect(r)
    \/ \E r \in Runs : NextSource(r)
    \/ \E r \in Runs : \E c \in run[r].calls :
            \E resp \in {x \in Responses : x.content \in {<<>>, MdB}} :
                FetchReturns(r, c, resp)
    \/ \E r \in Runs : \E c \in run[r].calls : ReadReturns(r, c)
    \/ \E r \in Runs : \E c \in run[r].calls : \E result \in Answers :
            PromptReturns(r, c, result)
    \/ \E r \in Runs : \E c \in run[r].calls : \E ok \in BOOLEAN :
            UpdateReturns(r, c, ok)
    \/ \E r \in Runs : \E c \in run[r].calls : \E ok \in BOOLEAN :
            WriteReturns(r, c, ok)

SpecTwo == InitTwo /\ [][NextTwo]_vars

\* Two runs one after the other: the second performSync is invoked when the
\* first has returned.  What the sources hold does not change between the
\* runs: 'https://e/a' and '/p' hold '# A' and 'https://e/b' holds '# B',
\* and a request may fail.  The configurations: two sources of one language
\* with two destinations, and two sources of different languages with the
\* same destination path.
InitAgain ==
    /\ \E cf \in {[remote |-> Null, local |-> <<Q1, Q2>>],
                  [remote |-> [sources |-> <<Q3>>], local |-> <<Q2>>]} :
          /\ remoteConfig = cf.remote
          /\ localSources = cf.local
    /\ workspaceFolders = <<"w1", "w2">>
    /\ detected \in Detections
    /\ \E c0 \in {NullContent, MdA} : fs = [k \in Folders \X DestPaths |-> c0]
    /\ confirmBeforeSync \in BOOLEAN
    /\ allowed = Runs
    /\ InitIdle

NextAgain ==
    \/ \E show \in BOOLEAN : StartSync(1, show)
    \/ \E show \in BOOLEAN : run[1].pc = "done" /\ StartSync(2, show)
    \/ \E r \in Runs : Detect(r)
    \/ \E r \in Runs : NextSource(r)
    \/ \E r \in Runs : \E c \in run[r].calls :
            \E resp \in {[ok |-> FALSE, content |-> <<>>],
                         [ok |-> TRUE,
                          content |-> IF c.source.url = UrlB THEN MdB ELSE MdA]} :
                FetchReturns(r, c, resp)
    \/ \E r \in Runs : \E c \in run[r].calls : ReadReturns(r, c)
    \/ \E r \in Runs : \E c \in run[r].calls : \E result \in Answers :
            PromptReturns(r, c, result)
    \/ \E r \in Runs : \E c \in run[r].calls : \E ok \in BOOLEAN :
            UpdateReturns(r, c, ok)
    \/ \E r \in Runs : \E c \in run[r].calls : \E ok \in BOOLEAN :
            WriteReturns(r, c, ok)

SpecAgain == InitAgain /\ [][NextAgain]_vars

---------------------------------------------------------------------------
(* The remote configuration: fetchRemoteConfig, called by                  *)
(* getInstructionSources                                                   *)

\* the property names read from the parsed document
Key ==
    [ sources |->
          <<"s","o","u","r","c","e","s">>,
      language |->
          <<"l","a","n","g","u","a","g","e">>,
      url |->
          <<"u","r","l">>,
      enabled |->
          <<"e","n","a","b","l","e","d">>,
      destinationFolder |->
          <<"d","e","s","t","i","n","a","t","i","o","n","F","o","l","d","e","r">>,
      destinationFile |->
          <<"d","e","s","t","i","n","a","t","i","o","n","F","i","l","e">>,
      syncOnOpen |->
          <<"s","y","n","c","O","n","O","p","e","n">>,
      syncOnConfigChange |->
          <<"s","y","n","c","O","n","C","o","n","f","i","g","C","h","a","n","g","e">>,
      confirmBeforeSync |->
          <<"c","o","n","f","i","r","m","B","e","f","o","r","e","S","y","n","c">> ]

\* a property that an object does not have
Undefined ==
    [kind |-> "undefined", str |-> <<>>, truthy |-> FALSE, members |-> <<>>,
     elems |-> <<>>]

\* v.<name>: the value of the last member of that name, or undefined
Member(v, name) ==
    IF \E i \in 1..Len(v.members) : v.members[i].key = name
    THEN v.members[CHOOSE i \in 1..Len(v.members) :
                        /\ v.members[i].key = name
                        /\ \A j \in (i + 1)..Len(v.members) :
                              v.members[j].key # name].val
    ELSE Undefined

\* typeof v === 'boolean'
IsBoolean(v) == v.kind \in {"true", "false"}

\* A mutant of KeepSource: an entry is kept for its language alone.
KeepSourceLanguageOnly(s) ==
    /\ s.kind \in {"object", "array"}
    /\ Member(s, Key.language).kind = "string"

\* the filter of parsed.sources: typeof s === 'object' && s !== null, and
\* typeof obj.language === 'string' && typeof obj.url === 'string'
KeepSource(s) ==
    /\ s.kind \in {"object", "array"}
    /\ Member(s, Key.language).kind = "string"
    /\ Member(s, Key.url).kind = "string"

\* The entry s as the InstructionSource that the rest of the code reads.
\* enabled is only ever compared with false, so that a value that is not a
\* boolean reads as true; a destination field that is null is defaulted by
\* ?? as an absent one is, and another value is the text that the template
\* literal of getDestinationPath makes of it.
AsSource(s) ==
    LET present == {"language", "url"}
            \cup (IF Member(s, Key.enabled).kind = "undefined"
                  THEN {} ELSE {"enabled"})
            \cup (IF Member(s, Key.destinationFolder).kind \in {"undefined", "null"}
                  THEN {} ELSE {"destinationFolder"})
            \cup (IF Member(s, Key.destinationFile).kind \in {"undefined", "null"}
                  THEN {} ELSE {"destinationFile"})
    IN  [n \in present |->
            IF n = "language" THEN Member(s, Key.language).str
            ELSE IF n = "url" THEN Member(s, Key.url).str
            ELSE IF n = "enabled" THEN Member(s, Key.enabled).kind # "false"
            ELSE IF n = "destinationFolder"
                 THEN Member(s, Key.destinationFolder).str
            ELSE Member(s, Key.destinationFile).str]

\* parsed.sources.filter(...)
FilterSources(elems) ==
    LET kept == SelectSeq(elems, KeepSource)
    IN  [i \in 1..Len(kept) |-> AsSource(kept[i])]

\* const remoteConf: RemoteConfig = {}; the fields that pass their checks
ValidateStructure(parsed) ==
    LET present ==
            (IF Member(parsed, Key.sources).kind = "array"
             THEN {"sources"} ELSE {})
            \cup (IF IsBoolean(Member(parsed, Key.syncOnOpen))
                  THEN {"syncOnOpen"} ELSE {})
            \cup (IF IsBoolean(Member(parsed, Key.syncOnConfigChange))
                  THEN {"syncOnConfigChange"} ELSE {})
            \cup (IF IsBoolean(Member(parsed, Key.confirmBeforeSync))
                  THEN {"confirmBeforeSync"} ELSE {})
    IN  [n \in present |->
            IF n = "sources"
            THEN FilterSources(Member(parsed, Key.sources).elems)
            ELSE IF n = "syncOnOpen"
                 THEN Member(parsed, Key.syncOnOpen).kind = "true"
            ELSE IF n = "syncOnConfigChange"
                 THEN Member(parsed, Key.syncOnConfigChange).kind = "true"
            ELSE Member(parsed, Key.confirmBeforeSync).kind = "true"]

\* A mutant of CacheFresh: a forced refresh is served from the cache.
CacheFreshForced(forceRefresh, cache, duration, t) ==
    /\ cache # Null
    /\ duration * MsPerSecond > 0
    /\ t - cache.timestamp < duration * MsPerSecond

\* !forceRefresh && remoteConfigCache && cacheDuration > 0
\*     && Date.now() - remoteConfigCache.timestamp < cacheDuration
CacheFresh(forceRefresh, cache, duration, t) ==
    /\ ~forceRefresh
    /\ cache # Null
    /\ duration * MsPerSecond > 0
    /\ t - cache.timestamp < duration * MsPerSecond

\* A mutant of Fallback: a failed load returns no configuration.
FallbackNone(cache) == Null

\* return remoteConfigCache?.config ?? null
Fallback(cache) == IF cache = Null THEN Null ELSE cache.config

\* fetchRemoteConfig returns result and getInstructionSources merges it
\* with the local sources
ReturnSources(forceRefresh, result, ok, text, issued, outcome, msg) ==
    /\ remoteConfig' = result
    /\ merged' = MergeSources(result, localSources)
    /\ called' = TRUE
    /\ load' = [pc |-> "idle", forceRefresh |-> forceRefresh,
                url |-> IF load.pc = "fetching" THEN load.url
                        ELSE remoteConfigUrl]
    /\ last' = Step(0, 0, 0, "load", ok, text, "", issued, outcome, msg)

\* getInstructionSources(forceRefresh) up to the await of fetchContent in
\* fetchRemoteConfig, or to its end when nothing is fetched
GetSourcesBegin(forceRefresh) ==
    /\ load.pc = "idle"
    /\ IF Len(remoteConfigUrl) = 0
       THEN ReturnSources(forceRefresh, Null, TRUE, <<>>, "", "nourl", "")
       ELSE IF CacheFresh(forceRefresh, remoteConfigCache,
                          remoteConfigCacheDuration, now)
       THEN ReturnSources(forceRefresh, remoteConfigCache.config, TRUE, <<>>,
                          "", "cached", "")
       ELSE /\ load' = [pc |-> "fetching", forceRefresh |-> forceRefresh,
                         url |-> remoteConfigUrl]
            /\ last' = Step(0, 0, 0, "load", TRUE, <<>>, "", "fetch", "", "")
            /\ UNCHANGED <<remoteConfig, merged, called>>
    /\ UNCHANGED <<localSources, workspaceFolders, detected, allowed, fs,
                   confirmBeforeSync, run, remoteConfigUrl,
                   remoteConfigCacheDuration, now, remoteConfigCache,
                   command, validatorVars, callVars>>

\* A mutant of GetSourcesEnd: the catch block stamps the cache it falls
\* back to with the time of the failure.
GetSourcesEndStamping(resp) ==
    /\ load.pc = "fetching"
    /\ \E res \in {fetchContent(load.url, resp)} :
       \E parsed \in {IF res.threw THEN ParseFail ELSE JSONParse(res.content)} :
       \E conf \in {IF parsed.ok /\ parsed.kind # "null"
                     THEN ValidateStructure(parsed) ELSE Null} :
           IF res.threw \/ ~parsed.ok \/ parsed.kind = "null"
           THEN /\ ReturnSources(load.forceRefresh, Fallback(remoteConfigCache),
                                 resp.ok, resp.content, "fetch", "fallback",
                                 "error")
                /\ remoteConfigCache' =
                      IF remoteConfigCache = Null THEN Null
                      ELSE [remoteConfigCache EXCEPT !.timestamp = now]
           ELSE /\ remoteConfigCache' = [config |-> conf, timestamp |-> now]
                /\ ReturnSources(load.forceRefresh, conf, TRUE, resp.content,
                                 "fetch", "fetched", "")
    /\ UNCHANGED <<localSources, workspaceFolders, detected, allowed, fs,
                   confirmBeforeSync, run, remoteConfigUrl,
                   remoteConfigCacheDuration, now, command, validatorVars,
                   callVars>>

\* fetchContent(remoteConfigUrl) has answered: parse, validate the
\* structure and update the cache, or catch the error and fall back
GetSourcesEnd(resp) ==
    /\ load.pc = "fetching"
    /\ \E res \in {fetchContent(load.url, resp)} :
       \E parsed \in {IF res.threw THEN ParseFail ELSE JSONParse(res.content)} :
       \E conf \in {IF parsed.ok /\ parsed.kind # "null"
                     THEN ValidateStructure(parsed) ELSE Null} :
           IF res.threw \/ ~parsed.ok \/ parsed.kind = "null"
           THEN /\ ReturnSources(load.forceRefresh, Fallback(remoteConfigCache),
                                 resp.ok, resp.content, "fetch", "fallback",
                                 "error")
                /\ UNCHANGED remoteConfigCache
           ELSE /\ remoteConfigCache' = [config |-> conf, timestamp |-> now]
                /\ ReturnSources(load.forceRefresh, conf, TRUE, resp.content,
                                 "fetch", "fetched", "")
    /\ UNCHANGED <<localSources, workspaceFolders, detected, allowed, fs,
                   confirmBeforeSync, run, remoteConfigUrl,
                   remoteConfigCacheDuration, now, command, validatorVars,
                   callVars>>

\* time passes
MaxNow == 3

Tick ==
    /\ now < MaxNow * MsPerSecond
    /\ now' = now + MsPerSecond
    /\ UNCHANGED <<localSources, remoteConfig, workspaceFolders, detected,
                   allowed, merged, called, fs, confirmBeforeSync, run, last,
                   remoteConfigUrl, remoteConfigCacheDuration,
                   remoteConfigCache, load, command, validatorVars,
                   callVars>>

\* 'https://e/c'
UrlConfig == <<"h","t","t","p","s",":","/","/","e","/","c">>

\* one well-formed source
\*   {"sources":[{"language":"AL","url":"https://e/a"}]}
DocOne ==
    <<"{","\"","s","o","u","r","c","e","s","\"",":","[","{","\"","l","a",
      "n","g","u","a","g","e","\"",":","\"","A","L","\"",",","\"","u","r",
      "l","\"",":","\"","h","t","t","p","s",":","/","/","e","/","a","\"",
      "}","]","}">>

\* well-formed and malformed entries, a toggle that is not a boolean
\*   {"sources":[5,{"language":"AL","url":"https://e/a"},{"language":1,"url":"u"},null,{"url":"u"},{"language":"AL"},{"language":"C#","url":"/p","destinationFile":"f"},[],"x"],"syncOnOpen":"yes","confirmBeforeSync":false}
DocMixed ==
    <<"{","\"","s","o","u","r","c","e","s","\"",":","[","5",",","{","\"",
      "l","a","n","g","u","a","g","e","\"",":","\"","A","L","\"",",","\"",
      "u","r","l","\"",":","\"","h","t","t","p","s",":","/","/","e","/","a",
      "\"","}",",","{","\"","l","a","n","g","u","a","g","e","\"",":","1",
      ",","\"","u","r","l","\"",":","\"","u","\"","}",",","n","u","l","l",
      ",","{","\"","u","r","l","\"",":","\"","u","\"","}",",","{","\"","l",
      "a","n","g","u","a","g","e","\"",":","\"","A","L","\"","}",",","{",
      "\"","l","a","n","g","u","a","g","e","\"",":","\"","C","#","\"",",",
      "\"","u","r","l","\"",":","\"","/","p","\"",",","\"","d","e","s","t",
      "i","n","a","t","i","o","n","F","i","l","e","\"",":","\"","f","\"",
      "}",",","[","]",",","\"","x","\"","]",",","\"","s","y","n","c","O",
      "n","O","p","e","n","\"",":","\"","y","e","s","\"",",","\"","c","o",
      "n","f","i","r","m","B","e","f","o","r","e","S","y","n","c","\"",":",
      "f","a","l","s","e","}">>

\* an entry with an empty language and untyped optional fields
\*   {"sources":[{"language":"","url":"u","enabled":"no","destinationFolder":5}]}
DocUntyped ==
    <<"{","\"","s","o","u","r","c","e","s","\"",":","[","{","\"","l","a",
      "n","g","u","a","g","e","\"",":","\"","\"",",","\"","u","r","l","\"",
      ":","\"","u","\"",",","\"","e","n","a","b","l","e","d","\"",":","\"",
      "n","o","\"",",","\"","d","e","s","t","i","n","a","t","i","o","n","F",
      "o","l","d","e","r","\"",":","5","}","]","}">>

\* sources is not an array
\*   {"sources":{"language":"AL","url":"u"},"syncOnOpen":true}
DocNoArray ==
    <<"{","\"","s","o","u","r","c","e","s","\"",":","{","\"","l","a","n",
      "g","u","a","g","e","\"",":","\"","A","L","\"",",","\"","u","r","l",
      "\"",":","\"","u","\"","}",",","\"","s","y","n","c","O","n","O","p",
      "e","n","\"",":","t","r","u","e","}">>

\* not a JSON document
\*   {"sources":[
DocBroken ==
    <<"{","\"","s","o","u","r","c","e","s","\"",":","[">>

\* the JSON value null
\*   null
DocNull ==
    <<"n","u","l","l">>

\* an API error body
\*   {"message":"Not Found"}
DocApiError ==
    <<"{","\"","m","e","s","s","a","g","e","\"",":","\"","N","o","t"," ",
      "F","o","u","n","d","\"","}">>

\* what the request of the remote configuration may answer
ConfigResponses ==
    {[ok |-> FALSE, content |-> <<>>]}
        \cup {[ok |-> TRUE, content |-> x] :
                x \in {DocOne, DocMixed, DocUntyped, DocNoArray, DocBroken,
                       DocNull, DocApiError}}

\* cache durations of the configuration store, in seconds
CacheDurations == {-1, 0, 1, 2}

InitRemote ==
    /\ localSources \in {<<>>, <<Q2>>}
    /\ remoteConfig = Null
    /\ workspaceFolders = <<>>
    /\ detected = [f \in Folders |-> <<>>]
    /\ fs = [k \in {} |-> NullContent]
    /\ confirmBeforeSync = TRUE
    /\ allowed = {}
    /\ InitRun
    /\ remoteConfigUrl \in {<<>>, UrlConfig}
    /\ remoteConfigCacheDuration \in CacheDurations
    /\ now = 0
    /\ remoteConfigCache = Null
    /\ load = NoLoad
    /\ command = [pc |-> "idle", url |-> <<>>]
    /\ InitNoContent
    /\ InitNoCall

NextRemote ==
    \/ \E forceRefresh \in BOOLEAN : GetSourcesBegin(forceRefresh)
    \/ \E resp \in ConfigResponses : GetSourcesEnd(resp)
    \/ Tick

SpecRemote == InitRemote /\ [][NextRemote]_vars

\* The set-remote-config command up to the end of
\*   await config.update('remoteConfigUrl', url || undefined, Global)
\* with url what the input box returned (a cancelled box ends the command
\* and changes nothing); the store then holds the new URL, or none
SetRemoteConfigUpdate(url) ==
    /\ command.pc = "idle"
    /\ remoteConfigUrl' = url
    /\ command' = [pc |-> "clear", url |-> url]
    /\ last' = Step(0, 0, 0, "seturl", TRUE, url, "", "clear", "", "")
    /\ UNCHANGED <<localSources, remoteConfig, merged, called,
                   workspaceFolders, detected, allowed, fs, confirmBeforeSync,
                   run, remoteConfigCacheDuration, now, remoteConfigCache,
                   load, validatorVars, callVars>>

\* The rest of the command: remoteConfigCache = null, and for a URL that is
\* not empty performSync(true, true), which with a workspace folder open
\* calls getInstructionSources(true) and so fetchRemoteConfig(true) up to
\* its await.  The model keeps one load under way: when one is under way
\* already, the load of the command's run is left out.
SetRemoteConfigClear ==
    /\ command.pc = "clear"
    /\ remoteConfigCache' = Null
    /\ command' = [pc |-> "idle", url |-> command.url]
    /\ IF Len(command.url) > 0 /\ Len(workspaceFolders) > 0 /\ load.pc = "idle"
       THEN IF Len(remoteConfigUrl) = 0
            THEN ReturnSources(TRUE, Null, TRUE, <<>>, "", "nourl", "")
            ELSE /\ load' = [pc |-> "fetching", forceRefresh |-> TRUE,
                             url |-> remoteConfigUrl]
                 /\ last' = Step(0, 0, 0, "load", TRUE, <<>>, "", "fetch", "", "")
                 /\ UNCHANGED <<remoteConfig, merged, called>>
       ELSE /\ last' = Step(0, 0, 0, "clear", TRUE, <<>>, "", "", "", "")
            /\ UNCHANGED <<load, remoteConfig, merged, called>>
    /\ UNCHANGED <<localSources, workspaceFolders, detected, allowed, fs,
                   confirmBeforeSync, run, remoteConfigUrl,
                   remoteConfigCacheDuration, now, validatorVars, callVars>>

\* instructionSync.remoteConfigUrl is edited in the settings
ChangeRemoteConfigUrl(url) ==
    /\ url # remoteConfigUrl
    /\ remoteConfigUrl' = url
    /\ last' = Step(0, 0, 0, "settings", TRUE, url, "", "", "", "")
    /\ UNCHANGED <<localSources, remoteConfig, merged, called,
                   workspaceFolders, detected, allowed, fs, confirmBeforeSync,
                   run, remoteConfigCacheDuration, now, remoteConfigCache,
                   load, command, validatorVars, callVars>>

\* what the remote configuration URLs hold: 'https://e/c' holds DocOne and
\* any other URL DocUntyped
ConfigAt(url) == IF url = UrlConfig THEN DocOne ELSE DocUntyped

\* The loads of the timer, the watcher and the commands, the
\* set-remote-config command and edits of the settings, with one workspace
\* folder open.  A request of a URL fails or answers what the URL holds, a
\* text that is not JSON, or an API error document.
InitUrl ==
    /\ localSources = <<>>
    /\ remoteConfig = Null
    /\ workspaceFolders = <<"w1">>
    /\ detected = [f \in Folders |-> <<>>]
    /\ fs = [k \in {} |-> NullContent]
    /\ confirmBeforeSync = TRUE
    /\ allowed = {}
    /\ InitRun
    /\ remoteConfigUrl \in {<<>>, UrlConfig}
    /\ remoteConfigCacheDuration \in {0, 2}
    /\ now = 0
    /\ remoteConfigCache = Null
    /\ load = NoLoad
    /\ command = [pc |-> "idle", url |-> <<>>]
    /\ InitNoContent
    /\ InitNoCall

NextUrl ==
    \/ \E forceRefresh \in BOOLEAN : GetSourcesBegin(forceRefresh)
    \/ \E resp \in {[ok |-> FALSE, content |-> <<>>]}
                    \cup {[ok |-> TRUE, content |-> x] :
                            x \in {ConfigAt(load.url), DocBroken, DocApiError}} :
            GetSourcesEnd(resp)
    \/ Tick
    \/ \E url \in {<<>>, UrlConfig, UrlB} : SetRemoteConfigUpdate(url)
    \/ SetRemoteConfigClear
    \/ \E url \in {<<>>, UrlConfig, UrlB} : ChangeRemoteConfigUrl(url)

SpecUrl == InitUrl /\ [][NextUrl]_vars

---------------------------------------------------------------------------
(* The force-sync command *)

\* sources.filter(s => s.enabled !== false): the indices kept
EnabledSources(sources) == {k \in 1..Len(sources) : ~Disabled(sources[k])}

\* the force-sync command up to its loop: getInstructionSources(true),
\* the filter and showQuickPick; pick is the index of the source picked, 0
\* for a dismissed pick
StartForce(r, pick) ==
    /\ run[r].pc = "idle"
    /\ r \in allowed
    /\ LET sources == MergeSources(remoteConfig, localSources)
           none == Len(workspaceFolders) = 0 \/ Len(sources) = 0
       IN  /\ pick \in {0} \cup (IF none THEN {} ELSE EnabledSources(sources))
           /\ run' = [run EXCEPT ![r] =
                        [IdleRun EXCEPT
                            !.pc = IF none \/ pick = 0 THEN "done" ELSE "force",
                            !.show = TRUE,
                            !.sources = IF none THEN <<>> ELSE sources,
                            !.i = 1,
                            !.j = pick]]
           /\ last' = Step(r, 0, pick, "force", TRUE, <<>>, "", "", "",
                           IF none THEN "warning" ELSE "")
    /\ UNCHANGED <<envVars, merged, called, fs, confirmBeforeSync>>

\* for (const workspaceFolder of workspaceFolders)
\*     { await syncInstructions(workspaceFolder, picked.source, true); }
ForceNext(r) ==
    /\ run[r].pc = "force"
    /\ Awaited(run[r])
    /\ LET rr == run[r]
       IN  IF rr.i > Len(workspaceFolders)
           THEN /\ run' = [run EXCEPT ![r].pc = "done"]
                /\ last' = Step(r, rr.i, 0, "next", TRUE, <<>>, "", "", "", "")
           ELSE /\ run' = [run EXCEPT ![r] =
                    [rr EXCEPT !.i = rr.i + 1,
                               !.fetched = @ \cup {<<rr.i, rr.j>>},
                               !.calls = @ \cup
                                   {[root |-> rr.i, src |-> rr.j,
                                     folder |-> workspaceFolders[rr.i],
                                     source |-> rr.sources[rr.j],
                                     pc |-> "fetch",
                                     remoteContent |-> <<>>,
                                     localContent |-> <<>>,
                                     show |-> TRUE,
                                     requireConfirmation |-> TRUE,
                                     hasSession |-> FALSE]}]]
                /\ last' = Step(r, rr.i, rr.j, "call", TRUE, <<>>, "", "fetch",
                                "", "")
    /\ UNCHANGED <<envVars, merged, called, fs, confirmBeforeSync>>

InitForce ==
    /\ \E cf \in Configurations :
          /\ remoteConfig = cf.remote
          /\ localSources = cf.local
    /\ workspaceFolders \in {<<>>, <<"w1", "w2">>}
    /\ detected \in Detections
    /\ \E c0 \in {NullContent, MdA} : fs = [k \in Folders \X DestPaths |-> c0]
    /\ confirmBeforeSync \in BOOLEAN
    /\ allowed = {1}
    /\ InitIdle

NextForce ==
    \/ \E r \in Runs : \E pick \in 0..(2 * MaxLen) : StartForce(r, pick)
    \/ \E r \in Runs : ForceNext(r)
    \/ \E r \in Runs : \E c \in run[r].calls : \E resp \in Responses :
            FetchReturns(r, c, resp)
    \/ \E r \in Runs : \E c \in run[r].calls : ReadReturns(r, c)
    \/ \E r \in Runs : \E c \in run[r].calls : \E result \in Answers :
            PromptReturns(r, c, result)
    \/ \E r \in Runs : \E c \in run[r].calls : \E ok \in BOOLEAN :
            UpdateReturns(r, c, ok)
    \/ \E r \in Runs : \E c \in run[r].calls : \E ok \in BOOLEAN :
            WriteReturns(r, c, ok)

SpecForce == InitForce /\ [][NextForce]_vars

---------------------------------------------------------------------------
(* The validator on its own *)

\* pieces a content is made of: white space, the beginnings of an HTML
\* document in both cases, the beginning and the end of a JSON object,
\* the bodies {"error":0}, {"errors":[1]} and {"message":"m"}, plain text
\* and an error-indicator phrase
Pieces ==
    { <<" ">>, <<"\n">>,
      <<"<","h","t","m","l">>,
      <<"<","!","D","O","C","T","Y","P","E",">">>,
      <<"<","h","e","a","d",">">>,
      <<"{">>, <<"}">>,
      <<"{","\"","e","r","r","o","r","\"",":","0","}">>,
      <<"{","\"","e","r","r","o","r","s","\"",":","[","1","]","}">>,
      <<"{","\"","m","e","s","s","a","g","e","\"",":","\"","m","\"","}">>,
      <<"x">>,
      <<"p","a","g","e"," ","n","o","t"," ","f","o","u","n","d">> }

MaxPieces == 2

RECURSIVE Flatten(_)
Flatten(ps) == IF ps = <<>> THEN <<>> ELSE Head(ps) \o Flatten(Tail(ps))

Contents == {Flatten(ps) : ps \in SeqsUpTo(Pieces, MaxPieces)}

InitValidate ==
    /\ localSources = <<>>
    /\ remoteConfig = Null
    /\ workspaceFolders = <<>>
    /\ detected = [f \in Folders |-> <<>>]
    /\ fs = [k \in {} |-> NullContent]
    /\ confirmBeforeSync = TRUE
    /\ allowed = {}
    /\ InitRun
    /\ InitNoLoad
    /\ candidate \in Contents
    /\ validation = Null
    /\ InitNoCall

\* isValidInstructionContent(content, source) is called
Validate ==
    /\ validation = Null
    /\ validation' = isValidInstructionContent(candidate)
    /\ UNCHANGED <<localSources, remoteConfig, merged, called,
                   workspaceFolders, detected, fs, confirmBeforeSync, run,
                   allowed, last, remoteVars, candidate, callVars>>

NextValidate == Validate

SpecValidate == InitValidate /\ [][NextValidate]_vars

---------------------------------------------------------------------------
(* The request of fetchContent *)

\* A mutant of AuthProviderId: the provider of github.com for every host.
AuthProviderIdGitHub(isEnterprise) == "github"

\* const authProviderId = isEnterprise ? 'github-enterprise' : 'github'
AuthProviderId(isEnterprise) ==
    IF isEnterprise THEN "github-enterprise" ELSE "github"

\* fetchContent(source) up to its read or its request, given for each
\* provider whether getSession yields a token: via is the file store or
\* the network, lookup the provider asked for a session ("none" when
\* getSession is not called), authorization whether the request carries an
\* Authorization header
fetchRequest(source, tokens) ==
    IF isLocalPath(source)
    THEN [via |-> "file", lookup |-> "none", authorization |-> FALSE]
    ELSE IF isGitHubUrl(source).isGitHub
    THEN LET id == AuthProviderId(isGitHubUrl(source).isEnterprise)
         IN  [via |-> "network", lookup |-> id, authorization |-> tokens[id]]
    ELSE IF isAzureDevOpsUrl(source)
    THEN [via |-> "network", lookup |-> "microsoft",
          authorization |-> tokens["microsoft"]]
    ELSE [via |-> "network", lookup |-> "none", authorization |-> FALSE]

---------------------------------------------------------------------------
(* The helpers on their own: getDestinationPath, isGitHubUrl,              *)
(* isAzureDevOpsUrl, isLocalPath and the request of fetchContent           *)

\* the strings handed to the classifiers and to fetchContent.  Schemes:
\* 'https://', 'HTTP://' and none.  Hosts: the provider hosts in two cases,
\* enterprise suffixes, names that hold a provider name or a suffix without
\* ending in it, the suffix without its dot, the other provider, a host
\* behind user information and a host with a port.  Tails: paths with and
\* without a marker, a marker in the query and in the fragment.  Paths:
\* strings that are not http URLs: a file URI, drive paths, absolute
\* paths, network shares, relative paths.
Texts ==
    LET Schemes ==
            { <<"h","t","t","p","s",":","/","/">>,
              <<"H","T","T","P",":","/","/">>,
              <<>> }
        Hosts ==
            { <<"g","i","t","h","u","b",".","c","o","m">>,
              <<"G","i","t","H","u","b",".","C","O","M">>,
              <<"r","a","w",".","g","i","t","h","u","b","u","s","e","r","c","o","n","t","e","n","t",".","c","o","m">>,
              <<"m","y",".","g","h","e",".","c","o","m">>,
              <<"m","y",".","g","i","t","h","u","b",".","c","o","m">>,
              <<"e","v","i","l","g","i","t","h","u","b",".","c","o","m">>,
              <<"g","i","t","h","u","b",".","c","o","m",".","e","x","a","m","p","l","e",".","o","r","g">>,
              <<"g","h","e",".","c","o","m">>,
              <<"a",".","g","h","e",".","c","o","m",".","e">>,
              <<"d","e","v",".","a","z","u","r","e",".","c","o","m">>,
              <<"m","y",".","v","i","s","u","a","l","s","t","u","d","i","o",".","c","o","m">>,
              <<"v","i","s","u","a","l","s","t","u","d","i","o",".","c","o","m">>,
              <<"e">>,
              <<"g","i","t","h","u","b",".","c","o","m","@","e">>,
              <<"g","i","t","h","u","b",".","c","o","m",":","8">> }
        Tails ==
            { <<>>,
              <<"/","p">>,
              <<"/","_","a","p","i","s","/","x">>,
              <<"/","a","/","_","g","i","t","/","r">>,
              <<"?","q","=","/","_","a","p","i","s","/">>,
              <<"#","/","_","g","i","t","/">> }
        Paths ==
            { <<"f","i","l","e",":","/","/","/","p">>,
              <<"C",":","\\","p">>,
              <<"c",":","/","p">>,
              <<"C",":","p">>,
              <<"1",":","/","p">>,
              <<"/","p">>,
              <<"/">>,
              <<"/","/","s","/","p">>,
              <<"\\","p">>,
              <<"\\","\\","s","\\","p">>,
              <<"p","/","q">>,
              <<"n","o","t"," ","a"," ","u","r","l">>,
              <<>> }
    IN  {sc \o h \o tl : sc \in Schemes, h \in Hosts, tl \in Tails}
            \cup Paths

\* what a helper is called with: a source with every combination of the
\* optional fields or no source, or a string and, for each authentication
\* provider, whether getSession yields a token
Arguments ==
    LET Providers == {"github", "github-enterprise", "microsoft"}
        DestSources ==
            {Null} \cup
            { [n \in {"language", "url"} \cup opt |->
                  CASE n = "language" -> lang
                    [] n = "url" -> UrlA
                    [] n = "enabled" -> FALSE
                    [] n = "destinationFolder" -> folder
                    [] n = "destinationFile" -> file] :
                lang \in {LangAL, LangCS},
                folder \in {<<>>, <<"d">>},
                file \in {<<>>, <<"f">>},
                opt \in SUBSET {"enabled", "destinationFolder",
                                "destinationFile"} }
    IN  {[source |-> s, text |-> <<>>,
          tokens |-> [p \in Providers |-> FALSE]] : s \in DestSources}
            \cup {[source |-> Null, text |-> t, tokens |-> k] :
                     t \in Texts, k \in [Providers -> BOOLEAN]}

InitCalls ==
    /\ localSources = <<>>
    /\ remoteConfig = Null
    /\ workspaceFolders = <<>>
    /\ detected = [f \in Folders |-> <<>>]
    /\ fs = [k \in {} |-> NullContent]
    /\ confirmBeforeSync = TRUE
    /\ allowed = {}
    /\ InitRun
    /\ InitNoLoad
    /\ InitNoContent
    /\ argument \in Arguments
    /\ returned = Null

\* what a call of a helper leaves as it is
helperFrame == <<localSources, remoteConfig, merged, called,
                 workspaceFolders, detected, fs, confirmBeforeSync, run,
                 allowed, last, remoteVars, validatorVars, argument>>

CallGetDestinationPath ==
    /\ returned = Null
    /\ returned' = [op |-> "getDestinationPath",
                    value |-> getDestinationPath(argument.source)]
    /\ UNCHANGED helperFrame

CallIsGitHubUrl ==
    /\ returned = Null
    /\ returned' = [op |-> "isGitHubUrl", value |-> isGitHubUrl(argument.text)]
    /\ UNCHANGED helperFrame

CallIsAzureDevOpsUrl ==
    /\ returned = Null
    /\ returned' = [op |-> "isAzureDevOpsUrl",
                    value |-> isAzureDevOpsUrl(argument.text)]
    /\ UNCHANGED helperFrame

CallIsLocalPath ==
    /\ returned = Null
    /\ returned' = [op |-> "isLocalPath", value |-> isLocalPath(argument.text)]
    /\ UNCHANGED helperFrame

CallFetchContent ==
    /\ returned = Null
    /\ returned' = [op |-> "fetchContent",
                    value |-> fetchRequest(argument.text, argument.tokens)]
    /\ UNCHANGED helperFrame

NextCalls ==
    \/ CallGetDestinationPath
    \/ CallIsGitHubUrl
    \/ CallIsAzureDevOpsUrl
    \/ CallIsLocalPath
    \/ CallFetchContent

SpecCalls == InitCalls /\ [][NextCalls]_vars

---------------------------------------------------------------------------
(* Claims about the merge *)

\* The identity key as the specification words it:
\* lowercase(language) + "::" + folder + "/" + file, destinations defaulted.
IdentityKey(s) ==
    toLowerCase(s.language) \o <<":",":">>
        \o (IF "destinationFolder" \in DOMAIN s THEN s.destinationFolder
                                                ELSE DefaultFolder)
        \o <<"/">>
        \o (IF "destinationFile" \in DOMAIN s THEN s.destinationFile
                                              ELSE DefaultFile)

KeysOf(list) == {IdentityKey(list[i]) : i \in 1..Len(list)}

RemoteList == IF NoRemoteSources(remoteConfig) THEN <<>> ELSE remoteConfig.sources

\* the last entry of list with identity key k
LastWithKey(list, k) ==
    list[CHOOSE i \in 1..Len(list) :
            /\ IdentityKey(list[i]) = k
            /\ \A j \in (i+1)..Len(list) : IdentityKey(list[j]) # k]

\* C1: the list returned by the merge holds no two entries with the same
\* identity key, for every remote and local list (an empty or absent remote
\* list, an empty local list and lists that repeat a key included).
C1_NoDuplicateKeys ==
    called =>
        \A i, j \in 1..Len(merged) :
            IdentityKey(merged[i]) = IdentityKey(merged[j]) => i = j

\* C2: for a key that occurs in both the remote and the local list the merged
\* list holds exactly one entry, the local entry as a whole; a remote entry
\* whose key no local entry has is not replaced.
C2_LocalOverridesRemote ==
    called =>
        /\ \A k \in KeysOf(RemoteList) \cap KeysOf(localSources) :
              /\ Cardinality({i \in 1..Len(merged) : IdentityKey(merged[i]) = k}) = 1
              /\ \E i \in 1..Len(merged) : merged[i] = LastWithKey(localSources, k)
        /\ \A k \in KeysOf(RemoteList) \ KeysOf(localSources) :
              \E i \in 1..Len(merged) : merged[i] = LastWithKey(RemoteList, k)

\* C2 witness: a remote and a local entry share a key and differ in url,
\* enabled flag and destination fields; another local entry has the remote
\* entry's language and a different destination.
C2_Witness ==
    /\ called
    /\ RemoteList = <<P1>>
    /\ localSources = <<P3, P2>>
    /\ merged = <<P2, P3>>


---------------------------------------------------------------------------
(* Claims about the sync run *)

\* the destination file of the call c
DestOf(c) == <<c.folder, getDestinationPath(c.source).fullPath>>

\* the step just taken was the step op of the call c of run r
Stepped(r, c, op) ==
    /\ c \notin run'[r].calls
    /\ last'.run = r /\ last'.root = c.root /\ last'.src = c.src
    /\ last'.op = op

\* the calls of run r that go on for the same source as c after the step
Continued(r, c) ==
    {c2 \in run'[r].calls : c2.root = c.root /\ c2.src = c.src}

\* the (root, source) pair p comes before the pair q in a run
Before(p, q) == p[1] < q[1] \/ (p[1] = q[1] /\ p[2] < q[2])

\* the pairs (root, source) that the specification makes a run process
Eligible(r) ==
    {p \in (1..Len(workspaceFolders)) \X (1..Len(run[r].sources)) :
        LET s == run[r].sources[p[2]]
            langs == detected[workspaceFolders[p[1]]]
        IN  /\ ~("enabled" \in DOMAIN s /\ s.enabled = FALSE)
            /\ \E n \in 1..Len(langs) :
                    toLowerCase(langs[n]) = toLowerCase(s.language)}

\* C3: in a run started by performSync, once a prompt has been answered with
\* "Yes to All" no call of that run enters a prompt any more, and a call
\* whose fetched content differs from the local file goes straight to the
\* write of that content.
C3_YesToAllStopsPrompting ==
    [][\A r \in Runs :
          run[r].answered.ans = "Yes to All" =>
              /\ \A c2 \in run'[r].calls :
                    c2.pc = "prompt" => c2 \in run[r].calls
              /\ \A c \in run[r].calls :
                    (Stepped(r, c, "read") /\ fs[DestOf(c)] # c.remoteContent)
                        => Continued(r, c) = {[c EXCEPT !.pc = "write",
                                                 !.localContent = fs[DestOf(c)]]}
      ]_vars

\* C3 witness: "Yes to All" was answered for a source of the first root and a
\* differing source of the second root has gone from the read to the write
\* while the persisted preference still asks for confirmation.
C3_Witness ==
    \E r \in Runs : \E c \in run[r].calls :
        /\ run[r].answered.ans = "Yes to All"
        /\ run[r].answered.root < c.root
        /\ confirmBeforeSync
        /\ last.op = "read" /\ last.next = "write"
        /\ c.pc = "write"
        /\ c.localContent # c.remoteContent

Valid(content) == isValidInstructionContent(content).valid

\* C5: when the fetch of a source fails, or the content fetched is one the
\* validator classifies as invalid, or the write fails, the call ends there
\* with the failure reported, the destination is unchanged and the run is
\* left as it was but for the ended call.
C5_FailureIsContained ==
    [][\A r \in Runs : \A c \in run[r].calls :
          LET fetchFailed == /\ Stepped(r, c, "fetch")
                             /\ (~last'.ok \/ ~Valid(last'.content))
              writeFailed == Stepped(r, c, "write") /\ ~last'.ok
          IN  (fetchFailed \/ writeFailed) =>
                  /\ fs' = fs
                  /\ last'.outcome = "error" /\ last'.msg = "error"
                  /\ run'[r] = [run[r] EXCEPT !.calls = @ \ {c},
                                              !.hadError = TRUE]
      ]_vars

\* C6: a content that the validator classifies as invalid is never written:
\* every successful write wrote a valid content and every destination file
\* that exists holds a valid content, whatever the kind of the source.
C6_InvalidNeverWritten ==
    /\ (last.op = "write" /\ last.ok) => Valid(last.content)
    /\ \A d \in DOMAIN fs : fs[d] # NullContent => Valid(fs[d])

\* C7: a run has at most one call in flight, and the call in flight is for
\* the latest pair (root, source) in root order and merged-list order: every
\* other pair processed so far comes before it and has completed.
C7_Sequential ==
    \A r \in Runs :
        /\ Cardinality(run[r].calls) <= 1
        /\ \A c \in run[r].calls : \A p \in run[r].fetched :
              p = <<c.root, c.src>> \/ Before(p, <<c.root, c.src>>)

\* C7 witness: the fetch of the second source of a root is in flight, alone,
\* after the first source of the root was written.
C7_Witness ==
    \E r \in Runs : \E c \in run[r].calls :
        /\ c.pc = "fetch"
        /\ run[r].calls = {c}
        /\ \E k \in 1..(c.src - 1) :
              /\ <<c.root, k>> \in run[r].fetched
              /\ fs[<<c.folder, getDestinationPath(run[r].sources[k]).fullPath>>]
                    \notin {NullContent, MdA}

\* C8: a write happens only when the fetched content differs from the
\* content of the local file; when they are equal the call ends as "already
\* up to date" with no prompt, no write and no change of confirmAll or of the
\* persisted preference.
C8_WriteOnlyWhenDifferent ==
    [][\A r \in Runs : \A c \in run[r].calls :
          /\ (Stepped(r, c, "write") /\ last'.ok)
                => fs[DestOf(c)] # c.remoteContent
          /\ (Stepped(r, c, "read") /\ fs[DestOf(c)] = c.remoteContent)
                => /\ Continued(r, c) = {}
                   /\ fs' = fs
                   /\ run'[r].confirmAll = run[r].confirmAll
                   /\ confirmBeforeSync' = confirmBeforeSync
                   /\ last'.outcome = "uptodate"
      ]_vars

\* C8 witness: a call has just ended as up to date on an existing file whose
\* content is the content fetched, with confirmation switched on.
C8_Witness ==
    /\ last.op = "read" /\ last.outcome = "uptodate"
    /\ last.content # NullContent
    /\ confirmBeforeSync
    /\ run[last.run].calls = {}
    /\ fs[<<workspaceFolders[last.root],
            getDestinationPath(run[last.run].sources[last.src]).fullPath>>]
          = last.content

\* C9: after the answer "No" and after a dismissed prompt alike the call ends
\* as skipped, nothing is written, confirmAll and the persisted preference
\* are unchanged, and the run is as it was but for the ended call, so that
\* its loop goes on with the next source.
C9_NoAndDismissSkip ==
    [][\A r \in Runs : \A c \in run[r].calls :
          (Stepped(r, c, "prompt") /\ last'.ans \in {"No", "undefined"}) =>
              /\ fs' = fs
              /\ confirmBeforeSync' = confirmBeforeSync
              /\ run'[r].confirmAll = run[r].confirmAll
              /\ [run'[r] EXCEPT !.answered = run[r].answered]
                    = [run[r] EXCEPT !.calls = @ \ {c}]
              /\ run'[r].pc = "loop" /\ run'[r].calls = {}
              /\ last'.outcome = "skipped"
      ]_vars

\* C9 witness: a prompt has just been dismissed and the call has ended as
\* skipped.
C9_Witness ==
    /\ last.op = "prompt" /\ last.ans = "undefined"
    /\ last.outcome = "skipped"
    /\ run[last.run].pc = "loop"
    /\ run[last.run].calls = {}

\* C10: the answer "Yes" sends the call to the write of the fetched content
\* and changes neither confirmAll nor the persisted preference; that write
\* puts the fetched content into the destination; and the next call of the
\* run whose content differs is prompted again.
C10_YesWritesThisOne ==
    [][\A r \in Runs : \A c \in run[r].calls :
          /\ (Stepped(r, c, "prompt") /\ last'.ans = "Yes") =>
                /\ Continued(r, c) = {[c EXCEPT !.pc = "write"]}
                /\ run'[r].confirmAll = run[r].confirmAll
                /\ confirmBeforeSync' = confirmBeforeSync
                /\ fs' = fs
          /\ (/\ Stepped(r, c, "write") /\ last'.ok
              /\ run[r].answered = [ans |-> "Yes", root |-> c.root, src |-> c.src]) =>
                /\ fs' = [fs EXCEPT ![DestOf(c)] = c.remoteContent]
                /\ run'[r].confirmAll = run[r].confirmAll
                /\ confirmBeforeSync' = confirmBeforeSync
          /\ (/\ Stepped(r, c, "read")
              /\ run[r].answered.ans = "Yes"
              /\ fs[DestOf(c)] # c.remoteContent) =>
                \E c2 \in Continued(r, c) : c2.pc = "prompt"
      ]_vars

\* C10 witness: a source was approved with "Yes" and written, and a later
\* differing source of the run is at its prompt.
C10_Witness ==
    \E r \in Runs : \E c \in run[r].calls :
        /\ c.pc = "prompt"
        /\ run[r].answered.ans = "Yes"
        /\ Before(<<run[r].answered.root, run[r].answered.src>>, <<c.root, c.src>>)
        /\ LET s == run[r].sources[run[r].answered.src]
               d == <<workspaceFolders[run[r].answered.root],
                      getDestinationPath(s).fullPath>>
           IN  fs[d] \notin {NullContent, MdA}


\* C11: the answer "Always (disable confirmation)" leaves confirmAll as it
\* was and sends the call to the update of the persisted preference, not to
\* the write; the update sets the preference to false and only then the call
\* goes to the write, which puts the fetched content into the destination;
\* a call answered so is never at its write while the preference is not false.
C11_AlwaysDisablesThenWrites ==
    [][\A r \in Runs : \A c \in run[r].calls :
          LET always == run[r].answered =
                  [ans |-> "Always (disable confirmation)",
                   root |-> c.root, src |-> c.src]
          IN
          /\ (Stepped(r, c, "prompt")
                /\ last'.ans = "Always (disable confirmation)") =>
                /\ Continued(r, c) = {[c EXCEPT !.pc = "update"]}
                /\ run'[r].confirmAll = run[r].confirmAll
                /\ fs' = fs
          /\ (Stepped(r, c, "update") /\ last'.ok) =>
                /\ confirmBeforeSync' = FALSE
                /\ Continued(r, c) = {[c EXCEPT !.pc = "write"]}
                /\ run'[r].confirmAll = run[r].confirmAll
                /\ fs' = fs
          /\ (always /\ c.pc = "write") => ~confirmBeforeSync
          /\ (always /\ Stepped(r, c, "write") /\ last'.ok) =>
                /\ fs' = [fs EXCEPT ![DestOf(c)] = c.remoteContent]
                /\ confirmBeforeSync' = FALSE
                /\ run'[r].confirmAll = run[r].confirmAll
      ]_vars

\* C11 witness: a source answered with "Always (disable confirmation)" has
\* just been written, the preference is false and confirmAll is not set.
C11_Witness ==
    /\ last.op = "write" /\ last.ok
    /\ run[last.run].answered =
          [ans |-> "Always (disable confirmation)",
           root |-> last.root, src |-> last.src]
    /\ ~confirmBeforeSync
    /\ ~run[last.run].confirmAll
    /\ fs[<<workspaceFolders[last.root],
            getDestinationPath(run[last.run].sources[last.src]).fullPath>>]
          = last.content


\* C12: a run starts with confirmAll false; the confirmAll of a run is set
\* only when a prompt of that very run was answered "Yes to All"; and a call
\* of a run that was given no "Yes to All" is prompted for a differing
\* content when the preference asks for it, whatever the other runs were
\* answered, be they finished or still under way.
C12_SessionPerRun ==
    [][\A r \in Runs :
          /\ (run[r].pc = "idle" /\ run'[r].pc # "idle") => ~run'[r].confirmAll
          /\ run'[r].confirmAll => run'[r].answered.ans = "Yes to All"
          /\ \A c \in run[r].calls :
                (/\ Stepped(r, c, "read")
                 /\ fs[DestOf(c)] # c.remoteContent
                 /\ confirmBeforeSync
                 /\ run[r].answered.ans # "Yes to All")
                    => \E c2 \in Continued(r, c) : c2.pc = "prompt"
      ]_vars

\* C12 witness: one run was answered "Yes to All" and is still under way,
\* and a call of the other run has just gone from its read to a prompt.
C12_Witness ==
    \E r, q \in Runs :
        /\ r # q
        /\ run[q].confirmAll /\ run[q].answered.ans = "Yes to All"
        /\ run[q].pc \notin {"idle", "done"}
        /\ ~run[r].confirmAll
        /\ last.run = r /\ last.op = "read" /\ last.next = "prompt"
        /\ \E c \in run[r].calls : c.pc = "prompt"


\* C13: when the remote list is empty or absent, or the local list is empty,
\* the merge returns the list that the general algorithm returns for the
\* same lists: every remote entry, then every local entry, set into the map,
\* and the values of the map.
C13_ShortCircuitsAgree ==
    (called /\ (RemoteList = <<>> \/ localSources = <<>>)) =>
        merged = MapValues(SetAll(SetAll(<<>>, RemoteList), localSources))

\* C14: the merged list holds exactly one entry for every identity key of
\* the remote or the local list and no entry of another key, and the entry of
\* a key is the last one with that key in the remote list followed by the
\* local list.
C14_OneEntryPerKeyLastWins ==
    called =>
        LET all == RemoteList \o localSources
        IN  /\ \A k \in KeysOf(all) :
                  /\ Cardinality({i \in 1..Len(merged) :
                                      IdentityKey(merged[i]) = k}) = 1
                  /\ \E i \in 1..Len(merged) : merged[i] = LastWithKey(all, k)
            /\ \A i \in 1..Len(merged) : IdentityKey(merged[i]) \in KeysOf(all)


---------------------------------------------------------------------------
(* Claims about the remote configuration *)

\* the load that was under way has returned with this step
LoadReturned == load.pc = "fetching" /\ load'.pc = "idle" /\ last'.op = "load"

\* the sources have been asked for with this step
LoadCalled == load.pc = "idle" /\ now' = now /\ last'.op = "load"

\* the cache duration of the configuration store in milliseconds
DurationMs == remoteConfigCacheDuration * MsPerSecond

\* C16: when the request of the remote configuration fails or its answer is
\* not a JSON document, the load returns the configuration of the cache if
\* there is one, whatever its age and whether or not the refresh was forced,
\* and no configuration if there is none, in which case the sources returned
\* are the local sources; the sources are returned in either case.
C16_FailedLoadFallsBack ==
    [][(LoadReturned /\ (~last'.ok \/ ~JSONParse(last'.content).ok)) =>
          /\ remoteConfig' = (IF remoteConfigCache = Null THEN Null
                              ELSE remoteConfigCache.config)
          /\ remoteConfigCache = Null =>
                /\ \A i \in 1..Len(merged') :
                       \E j \in 1..Len(localSources) :
                           merged'[i] = localSources[j]
                /\ \A j \in 1..Len(localSources) :
                       \E i \in 1..Len(merged') :
                           sourceKey(merged'[i]) = sourceKey(localSources[j])
          /\ called'
          /\ merged' = MergeSources(remoteConfig', localSources)
      ]_vars

\* C16 witness: a forced load has just failed while the cache was older than
\* the cache duration, and the configuration of the cache, with a source in
\* it, was returned.
C16_Witness ==
    /\ last.op = "load" /\ last.outcome = "fallback"
    /\ load.forceRefresh
    /\ remoteConfigCache # Null
    /\ DurationMs > 0
    /\ now - remoteConfigCache.timestamp > DurationMs
    /\ remoteConfig = remoteConfigCache.config
    /\ "sources" \in DOMAIN remoteConfig
    /\ Len(remoteConfig.sources) > 0
    /\ called

\* C17: with a remote configuration URL set, a load that is not forced and
\* finds a cache younger than a positive cache duration returns the
\* configuration of the cache and requests nothing; every other load
\* requests the document, and when that succeeds the cache holds the
\* configuration returned and the time of the return.
C17_CacheServesFreshOnly ==
    [][/\ (LoadCalled /\ Len(remoteConfigUrl) > 0) =>
            IF /\ remoteConfigCache # Null
               /\ ~load'.forceRefresh
               /\ DurationMs > 0
               /\ now - remoteConfigCache.timestamp < DurationMs
            THEN /\ load'.pc = "idle"
                 /\ last'.next # "fetch"
                 /\ remoteConfig' = remoteConfigCache.config
                 /\ remoteConfigCache' = remoteConfigCache
            ELSE /\ load'.pc = "fetching"
                 /\ last'.next = "fetch"
       /\ (LoadReturned /\ last'.msg # "error") =>
            remoteConfigCache' = [config |-> remoteConfig', timestamp |-> now]
      ]_vars

\* C17 witness: a load has just been served from a cache that is some time
\* old and younger than the cache duration.
C17_Witness ==
    /\ last.op = "load" /\ last.outcome = "cached"
    /\ ~load.forceRefresh
    /\ remoteConfigCache # Null
    /\ now > remoteConfigCache.timestamp
    /\ now - remoteConfigCache.timestamp < DurationMs
    /\ remoteConfig = remoteConfigCache.config

\* an entry of the sources array that is an object with a string language
\* and a string url
WellFormed(e) ==
    /\ e.kind = "object"
    /\ Member(e, Key.language).kind = "string"
    /\ Member(e, Key.url).kind = "string"

\* the document of the load that has just returned
LoadedDocument == JSONParse(last.content)

\* the load has just returned a document that was fetched, is valid content
\* and parses to an object with a sources array
LoadedSourcesArray ==
    /\ last.op = "load" /\ last.next = "fetch" /\ last.ok
    /\ Valid(last.content)
    /\ LoadedDocument.ok
    /\ Member(LoadedDocument, Key.sources).kind = "array"

\* C18: the load of a document with a sources array succeeds whatever its
\* entries are, and the sources returned are the well-formed entries of the
\* array, all of them, in the order of the array.
C18_MalformedEntriesDropped ==
    LoadedSourcesArray =>
        LET kept == SelectSeq(Member(LoadedDocument, Key.sources).elems,
                              WellFormed)
        IN  /\ last.outcome = "fetched" /\ last.msg = ""
            /\ "sources" \in DOMAIN remoteConfig
            /\ remoteConfig.sources = [i \in 1..Len(kept) |-> AsSource(kept[i])]

\* C18 witness: the document with nine entries, seven of them malformed,
\* was loaded and its two well-formed entries were returned.
C18_Witness ==
    /\ LoadedSourcesArray
    /\ last.content = DocMixed
    /\ Len(Member(LoadedDocument, Key.sources).elems) = 9
    /\ Len(remoteConfig.sources) = 2
    /\ remoteConfig.sources[1].language = LangAL
    /\ remoteConfig.sources[2].language = LangCS

\* C19: every source of the configuration returned has a non-empty
\* language; every entry of a loaded document that is among the sources
\* returned has an enabled field that is a boolean or absent and destination
\* fields that are strings or absent; and a toggle of the configuration
\* returned is a boolean of the document.
C19_EveryFieldTypeChecked ==
    /\ (remoteConfig # Null /\ "sources" \in DOMAIN remoteConfig) =>
          \A i \in 1..Len(remoteConfig.sources) :
              Len(remoteConfig.sources[i].language) > 0
    /\ (LoadedSourcesArray /\ last.outcome = "fetched") =>
          LET elems == Member(LoadedDocument, Key.sources).elems
          IN  \A i \in 1..Len(elems) :
                (/\ elems[i].kind = "object"
                 /\ \E j \in 1..Len(remoteConfig.sources) :
                        remoteConfig.sources[j] = AsSource(elems[i]))
                => /\ Member(elems[i], Key.language).kind = "string"
                   /\ Member(elems[i], Key.url).kind = "string"
                   /\ Member(elems[i], Key.enabled).kind
                        \in {"undefined", "true", "false"}
                   /\ Member(elems[i], Key.destinationFolder).kind
                        \in {"undefined", "string"}
                   /\ Member(elems[i], Key.destinationFile).kind
                        \in {"undefined", "string"}
    /\ (last.op = "load" /\ last.outcome = "fetched") =>
          /\ "syncOnOpen" \in DOMAIN remoteConfig =>
                Member(LoadedDocument, Key.syncOnOpen).kind \in {"true", "false"}
          /\ "syncOnConfigChange" \in DOMAIN remoteConfig =>
                Member(LoadedDocument, Key.syncOnConfigChange).kind
                    \in {"true", "false"}
          /\ "confirmBeforeSync" \in DOMAIN remoteConfig =>
                Member(LoadedDocument, Key.confirmBeforeSync).kind
                    \in {"true", "false"}


---------------------------------------------------------------------------
(* Claims about the validator *)

\* the content is empty or white space only
IsBlank(c) == \A i \in 1..Len(c) : c[i] \in {" ", "\t", "\n", "\r"}

\* the number of white-space characters the content begins with
LeadingBlanks(c) ==
    CHOOSE k \in 0..Len(c) :
        /\ IsBlank(SubSeq(c, 1, k))
        /\ k < Len(c) => ~IsBlank(<<c[k + 1]>>)

\* the content, after its leading white space and in lower case, begins
\* with p
BeginsWith(c, p) ==
    LET k == LeadingBlanks(c)
    IN  /\ k + Len(p) <= Len(c)
        /\ \A i \in 1..Len(p) : LowerChar(c[k + i]) = p[i]

\* the content begins with the doctype marker or the opening html tag
BeginsAsHtml(c) ==
    \/ BeginsWith(c, <<"<","!","d","o","c","t","y","p","e">>)
    \/ BeginsWith(c, <<"<","h","t","m","l">>)

\* the content contains one of the error-indicator phrases
HasIndicator(c) ==
    \E i \in 1..Len(htmlErrorIndicators) :
        includes(toLowerCase(c), htmlErrorIndicators[i])

\* C20: the validator rejects blank content with the reason "Empty content
\* received"; it rejects every content that begins, after white space and
\* in any case, with the doctype marker or the opening html tag; and it
\* accepts every content that is not blank and begins with neither of these
\* nor with "{", whatever phrases it contains.
C20_ValidatorVerdicts ==
    validation # Null =>
        /\ IsBlank(candidate) =>
              /\ ~validation.valid
              /\ validation.reason = "Empty content received"
        /\ BeginsAsHtml(candidate) => ~validation.valid
        /\ (~IsBlank(candidate) /\ ~BeginsAsHtml(candidate)
               /\ ~BeginsWith(candidate, <<"{">>)) => validation.valid

\* C20 witness: a content that begins with white space and holds an
\* error-indicator phrase was accepted.
C20_Witness ==
    /\ validation # Null
    /\ validation.valid
    /\ LeadingBlanks(candidate) > 0
    /\ ~IsBlank(candidate)
    /\ HasIndicator(candidate)

\* the error-indicator phrases of the specification: the title markers of
\* 404, 401, 403 and 500, "page not found", "access denied",
\* "unauthorized", "sign in to" and "login required"
ListedIndicators == SubSeq(htmlErrorIndicators, 4, 12)

HasListedIndicator(c) ==
    \E i \in 1..Len(ListedIndicators) :
        includes(toLowerCase(c), ListedIndicators[i])

\* C21: a content rejected because it begins as an HTML document has the
\* reason "Received HTML error page instead of instructions content" if and
\* only if it contains one of the listed error-indicator phrases, and the
\* reason "Received HTML content instead of Markdown instructions" if it
\* contains none.
C21_ErrorPageIffIndicator ==
    (validation # Null /\ BeginsAsHtml(candidate)) =>
        /\ ~validation.valid
        /\ IF HasListedIndicator(candidate)
           THEN validation.reason =
                  "Received HTML error page instead of instructions content"
           ELSE validation.reason =
                  "Received HTML content instead of Markdown instructions"

\* the JSON object has a member of that name
HasMember(json, name) ==
    \E i \in 1..Len(json.members) : json.members[i].key = name

\* C22: a content that begins with "{" is rejected if it parses as a JSON
\* object with a message, error or errors member, whatever the value, and
\* then the reason is "API error: " followed by the value of message if
\* there is one and else by the value of error; it is accepted if it does
\* not parse or parses without these members.
C22_ApiErrorFields ==
    (validation # Null /\ BeginsWith(candidate, <<"{">>)) =>
        LET json == JSONParse(candidate)
        IN  IF /\ json.ok
               /\ \/ HasMember(json, Msg_message)
                  \/ HasMember(json, Msg_error)
                  \/ HasMember(json, Msg_errors)
            THEN /\ ~validation.valid
                 /\ validation.reason = "API error: "
                 /\ HasMember(json, Msg_message) =>
                        validation.detail = MemberText(json, Msg_message)
                 /\ (~HasMember(json, Msg_message)
                        /\ HasMember(json, Msg_error)) =>
                        validation.detail = MemberText(json, Msg_error)
            ELSE validation.valid

---------------------------------------------------------------------------
(* Claims about the order of the merge *)

\* the first position of the identity key k in list
FirstWithKey(list, k) ==
    Min({i \in 1..Len(list) : IdentityKey(list[i]) = k})

\* C27: the merged list holds the identity keys of the remote list followed
\* by the local list, each once, in the order of their first positions
\* there: the keys of the remote list in its order, then the keys of the
\* local list alone in its order; a local entry that overrides a remote
\* entry stands where the key of the remote entry came first.
C27_OrderOfFirstInsertion ==
    called =>
        LET all == RemoteList \o localSources
        IN  /\ Len(merged) = Cardinality(KeysOf(all))
            /\ \A i \in 1..Len(merged) : IdentityKey(merged[i]) \in KeysOf(all)
            /\ \A i, j \in 1..Len(merged) :
                  i < j => FirstWithKey(all, IdentityKey(merged[i]))
                             < FirstWithKey(all, IdentityKey(merged[j]))

---------------------------------------------------------------------------
(* Claims about the confirmation preference *)

\* C30: while the confirmBeforeSync preference is false no prompt is shown:
\* a call whose fetched content differs from the local file goes from the
\* comparison to the write, a call whose content is the same returns, and
\* the confirmAll of the session stays as it was.
C30_NoPromptWhenPreferenceOff ==
    [][~confirmBeforeSync =>
          \A r \in Runs :
              /\ {c \in run'[r].calls : c.pc = "prompt"}
                    \subseteq {c \in run[r].calls : c.pc = "prompt"}
              /\ \A c \in run[r].calls :
                    (c.pc = "read" /\ Stepped(r, c, "read")) =>
                        /\ run'[r].confirmAll = run[r].confirmAll
                        /\ IF fs[DestOf(c)] # c.remoteContent
                           THEN /\ Continued(r, c) # {}
                                /\ \A c2 \in Continued(r, c) : c2.pc = "write"
                           ELSE Continued(r, c) = {}
      ]_vars

\* C30 witness: with the preference false from the start, a file that
\* differed was written in a run that never asked and has no confirmAll.
C30_Witness ==
    /\ ~confirmBeforeSync
    /\ last.op = "write" /\ last.outcome = "updated"
    /\ \E r \in Runs :
          /\ last.run = r
          /\ run[r].answered.ans = ""
          /\ ~run[r].confirmAll
          /\ fs[<<workspaceFolders[last.root],
                  getDestinationPath(run[r].sources[last.src]).fullPath>>]
                = last.content

---------------------------------------------------------------------------
(* Claims about the force-sync command *)

\* C28: in a force-sync run, once the prompt of a root has been answered
\* with "Yes to All" no call of that run for a later root enters a prompt.
C28_ForceYesToAllStopsPrompting ==
    [][\A r \in Runs :
          (run[r].pc = "force" /\ run[r].answered.ans = "Yes to All") =>
              \A c2 \in run'[r].calls :
                  (c2.pc = "prompt" /\ c2.root > run[r].answered.root)
                      => c2 \in run[r].calls
      ]_vars

---------------------------------------------------------------------------
(* Claims about the helpers *)

\* the helper op has returned with this step
HelperReturned(op) == returned = Null /\ returned' # Null /\ returned'.op = op

\* the helper op has returned
HelperHasReturned(op) == returned # Null /\ returned.op = op

\* C23: for every source and for no source, getDestinationPath returns the
\* destinationFolder of the source if it has one and ".github" if not, the
\* destinationFile if it has one and "copilot-instructions.md" if not, and
\* as fullPath the folder, "/" and the file, whatever the other fields of
\* the source are; and the call changes nothing.
C23_DestinationDefaults ==
    [][HelperReturned("getDestinationPath") =>
          LET s == argument.source
              folder == IF "destinationFolder" \in DOMAIN s
                        THEN s.destinationFolder
                        ELSE <<".","g","i","t","h","u","b">>
              file == IF "destinationFile" \in DOMAIN s
                      THEN s.destinationFile
                      ELSE <<"c","o","p","i","l","o","t","-","i","n","s","t",
                             "r","u","c","t","i","o","n","s",".","m","d">>
          IN  /\ returned'.value.folder = folder
              /\ returned'.value.file = file
              /\ returned'.value.fullPath = folder \o <<"/">> \o file
              /\ UNCHANGED <<localSources, remoteConfig, merged, called,
                             workspaceFolders, detected, fs,
                             confirmBeforeSync, run, remoteVars, argument>>
      ]_vars

\* C23 witness: the path was resolved for a disabled source whose
\* destinationFolder is the empty string and which has no destinationFile.
C23_Witness ==
    /\ HelperHasReturned("getDestinationPath")
    /\ argument.source # Null
    /\ "enabled" \in DOMAIN argument.source
    /\ "destinationFolder" \in DOMAIN argument.source
    /\ argument.source.destinationFolder = <<>>
    /\ "destinationFile" \notin DOMAIN argument.source
    /\ returned.value.folder = <<>>
    /\ returned.value.fullPath = <<"/">> \o DefaultFile

\* the text, read as a URL, has a host, and that host in lower case is h
HostIs(text, h) == URLParse(text).ok /\ toLowerCase(URLParse(text).hostname) = h

\* the text, read as a URL, has a host that ends with suffix
HostEndsWith(text, suffix) ==
    /\ URLParse(text).ok
    /\ LET h == toLowerCase(URLParse(text).hostname)
           n == Len(suffix)
       IN  /\ Len(h) >= n
           /\ \A i \in 1..n : h[Len(h) - n + i] = suffix[i]

\* the host is one of the two hosts of the hosting provider
PrimaryHost(text) ==
    \/ HostIs(text, <<"g","i","t","h","u","b",".","c","o","m">>)
    \/ HostIs(text, <<"r","a","w",".","g","i","t","h","u","b","u","s","e",
                      "r","c","o","n","t","e","n","t",".","c","o","m">>)

\* the host ends with ".ghe.com" or ".github.com"
EnterpriseHost(text) ==
    \/ HostEndsWith(text, <<".","g","h","e",".","c","o","m">>)
    \/ HostEndsWith(text, <<".","g","i","t","h","u","b",".","c","o","m">>)

\* C24: isGitHubUrl returns (known, not enterprise) exactly for the URLs
\* whose host is github.com or raw.githubusercontent.com in any case,
\* (known, enterprise) exactly for the URLs with another host that ends
\* with ".ghe.com" or ".github.com", and (not known, not enterprise) for
\* every other URL and every string that is not a URL; it never returns
\* enterprise without known, and evilgithub.com and github.com.example.org
\* are not known.
C24_GitHubHosts ==
    HelperHasReturned("isGitHubUrl") =>
        LET t == argument.text
            v == returned.value
        IN  /\ (v.isGitHub /\ ~v.isEnterprise) <=> PrimaryHost(t)
            /\ (v.isGitHub /\ v.isEnterprise)
                  <=> (~PrimaryHost(t) /\ EnterpriseHost(t))
            /\ (~v.isGitHub /\ ~v.isEnterprise)
                  <=> (~PrimaryHost(t) /\ ~EnterpriseHost(t))
            /\ v.isEnterprise => v.isGitHub
            /\ ~URLParse(t).ok => ~v.isGitHub
            /\ (\/ HostIs(t, <<"e","v","i","l","g","i","t","h","u","b",".",
                              "c","o","m">>)
                \/ HostIs(t, <<"g","i","t","h","u","b",".","c","o","m",".",
                              "e","x","a","m","p","l","e",".","o","r","g">>)
                \/ HostIs(t, <<"g","h","e",".","c","o","m">>))
                  => ~v.isGitHub

\* C24 witness: a URL whose host holds github.com without ending in it was
\* classified as not known, its path not looked at.
C24_Witness ==
    /\ HelperHasReturned("isGitHubUrl")
    /\ HostIs(argument.text, <<"g","i","t","h","u","b",".","c","o","m",".",
                               "e","x","a","m","p","l","e",".","o","r","g">>)
    /\ Len(URLParse(argument.text).pathname) > 1
    /\ ~returned.value.isGitHub

\* the path of the text, read as a URL, contains marker
PathContains(text, marker) ==
    /\ URLParse(text).ok
    /\ LET path == URLParse(text).pathname
       IN  \E i \in 1..Len(path) :
              /\ i + Len(marker) - 1 <= Len(path)
              /\ \A n \in 1..Len(marker) : path[i + n - 1] = marker[n]

\* C25: isAzureDevOpsUrl returns true exactly for the URLs whose host is
\* dev.azure.com in any case or ends with ".visualstudio.com" or whose
\* path contains "/_apis/" or "/_git/", and false for every other URL and
\* every string that is not a URL; a marker in the query or the fragment
\* alone does not count.
C25_AzureDevOpsHostsAndPaths ==
    HelperHasReturned("isAzureDevOpsUrl") =>
        LET t == argument.text
        IN  /\ returned.value <=>
                  \/ HostIs(t, <<"d","e","v",".","a","z","u","r","e",".",
                                "c","o","m">>)
                  \/ HostEndsWith(t, <<".","v","i","s","u","a","l","s","t",
                                      "u","d","i","o",".","c","o","m">>)
                  \/ PathContains(t, <<"/","_","a","p","i","s","/">>)
                  \/ PathContains(t, <<"/","_","g","i","t","/">>)
            /\ ~URLParse(t).ok => ~returned.value

\* C25 witness: a URL of another host with a marker in its fragment and none
\* in its path was classified as not of the provider.
C25_Witness ==
    /\ HelperHasReturned("isAzureDevOpsUrl")
    /\ HostIs(argument.text, <<"e">>)
    /\ includes(argument.text, <<"#","/","_","g","i","t","/">>)
    /\ ~PathContains(argument.text, <<"/","_","g","i","t","/">>)
    /\ ~returned.value

\* the path separators
Separators == {"/", "\\"}

\* C26: isLocalPath is true exactly for the strings that start with
\* "file://", or with one ASCII letter, ":" and a path separator, "/" or
\* "\", or with one path separator that no second one follows.
C26_LocalPathForms ==
    HelperHasReturned("isLocalPath") =>
        LET s == argument.text
        IN  returned.value <=>
              \/ /\ Len(s) >= 7
                 /\ SubSeq(s, 1, 7) = <<"f","i","l","e",":","/","/">>
              \/ /\ Len(s) >= 3
                 /\ s[1] \in Letters
                 /\ s[2] = ":"
                 /\ s[3] \in Separators
              \/ /\ Len(s) >= 1
                 /\ s[1] \in Separators
                 /\ Len(s) >= 2 => s[2] \notin Separators

\* C29: fetchContent reads a source that isLocalPath through the file store,
\* looks up no credential for it and sends no request; every other source is
\* requested over the network, and a credential is looked up only for a URL
\* of the hosting provider, from the enterprise provider exactly when the
\* enterprise flag is set, or else for a URL of the alternate provider; the
\* request carries an Authorization header only if the lookup was made and
\* yielded a token.
C29_FetchStrategy ==
    HelperHasReturned("fetchContent") =>
        LET s == argument.text
            v == returned.value
            g == isGitHubUrl(s)
        IN  IF isLocalPath(s)
            THEN v.via = "file" /\ v.lookup = "none" /\ ~v.authorization
            ELSE /\ v.via = "network"
                 /\ v.lookup =
                      (IF g.isGitHub /\ g.isEnterprise THEN "github-enterprise"
                       ELSE IF g.isGitHub THEN "github"
                       ELSE IF isAzureDevOpsUrl(s) THEN "microsoft"
                       ELSE "none")
                 /\ v.authorization <=>
                      (v.lookup # "none" /\ argument.tokens[v.lookup])

\* C29 witness: an enterprise URL with a marker of the alternate provider in
\* its path was requested with the token of the enterprise provider, while
\* the provider of github.com had none.
C29_Witness ==
    /\ HelperHasReturned("fetchContent")
    /\ isGitHubUrl(argument.text).isEnterprise
    /\ isAzureDevOpsUrl(argument.text)
    /\ ~argument.tokens["github"]
    /\ argument.tokens["github-enterprise"]
    /\ returned.value.lookup = "github-enterprise"
    /\ returned.value.authorization


\* C31: when the destination file does not exist the read returns null and
\* the call does not end in the catch block: the content counts as different,
\* the call goes on to the prompt when the gate asks for one and to the write
\* otherwise; an approving answer sends it on towards the write, and the
\* write that succeeds creates the file with the fetched content and ends
\* the call as updated.
C31_MissingFileIsCreated ==
    [][\A r \in Runs : \A c \in run[r].calls :
          /\ (Stepped(r, c, "read") /\ fs[DestOf(c)] = NullContent) =>
                /\ last'.ok /\ last'.outcome = ""
                /\ run'[r].hadError = run[r].hadError
                /\ Continued(r, c) =
                      {[c EXCEPT !.pc = IF Ask(r, c) THEN "prompt" ELSE "write",
                                 !.localContent = NullContent]}
          /\ (/\ Stepped(r, c, "prompt")
              /\ c.localContent = NullContent
              /\ last'.ans \in {"Yes", "Yes to All"}) =>
                Continued(r, c) = {[c EXCEPT !.pc = "write"]}
          /\ (/\ Stepped(r, c, "write") /\ last'.ok
              /\ c.localContent = NullContent) =>
                /\ fs[DestOf(c)] = NullContent
                /\ fs' = [fs EXCEPT ![DestOf(c)] = c.remoteContent]
                /\ last'.outcome = "updated"
                /\ run'[r].hadError = run[r].hadError
      ]_vars

\* C31 witness: a file that did not exist was asked about, approved and has
\* just been written, and no call of the run ended in the catch block.
C31_Witness ==
    /\ last.op = "write" /\ last.ok /\ last.outcome = "updated"
    /\ run[last.run].answered = [ans |-> "Yes", root |-> last.root,
                                 src |-> last.src]
    /\ ~run[last.run].hadError
    /\ last.root = 1
    /\ \A k \in DOMAIN fs :
          fs[k] # NullContent =>
              /\ k = <<workspaceFolders[1],
                       getDestinationPath(
                           run[last.run].sources[last.src]).fullPath>>
              /\ fs[k] = last.content


\* C32: a call that returns hands its caller a value that tells its outcome
\* apart from the three others: no call ending as updated, already up to
\* date, skipped or failed would have returned the same value with another
\* outcome.
C32_OutcomesToldApart ==
    last.next = "return" =>
        \A o \in {"updated", "uptodate", "skipped", "error"} :
            Step(last.run, last.root, last.src, last.op, last.ok, last.content,
                 last.ans, "return", o, last.msg).value = last.value
                => o = last.outcome


\* C33: at most one run is in progress at a time, so that at no time two
\* prompts are outstanding: a call is at its prompt only while no call of
\* another run is at a prompt, and only while no other run is under way.
C33_OneRunAtATime ==
    \A r, q \in Runs :
        (r # q /\ \E c \in run[r].calls : c.pc = "prompt") =>
            /\ run[q].pc \in {"idle", "done"}
            /\ \A d \in run[q].calls : d.pc # "prompt"


\* C34: when a first run has ended in which no call failed and no prompt was
\* shown, so that every source it processed was written or was up to date,
\* a second run over the same configuration, the same detection and the
\* same source contents writes no file and shows no prompt.
C34_SecondRunChangesNothing ==
    [][(/\ run[1].pc = "done"
        /\ ~run[1].hadError
        /\ run[1].answered.ans = "")
          => /\ fs' = fs
             /\ \A c \in run'[2].calls : c.pc \notin {"prompt", "write"}
      ]_vars


\* C35: once a prompt of a run has been answered "Always (disable
\* confirmation)", no call of that run and no call of a later run comes to
\* be at a prompt while the stored preference is false; the preference is
\* false from the update that follows the answer, before any other call
\* reads it, so a prompt after that answer is shown only when the update
\* itself threw and left the preference as it was.
C35_AlwaysStopsPrompting ==
    [][\A q \in Runs :
          run[q].answered.ans = "Always (disable confirmation)" =>
              /\ \A c \in run[q].calls :
                    c.pc = "update" =>
                        \A r \in Runs : run[r].calls \subseteq {c}
              /\ \A r \in Runs : \A c2 \in run'[r].calls :
                    (c2.pc = "prompt" /\ c2 \notin run[r].calls) =>
                        /\ confirmBeforeSync
                        /\ run[q].hadError
      ]_vars

\* C35 witness: the first run was answered "Always (disable confirmation)",
\* the preference is false, and a call of the second run whose content
\* differs has just gone from its read to the write without a prompt.
C35_Witness ==
    /\ run[1].answered.ans = "Always (disable confirmation)"
    /\ run[1].pc = "done"
    /\ ~confirmBeforeSync
    /\ last.run = 2 /\ last.op = "read" /\ last.next = "write"
    /\ \E c \in run[2].calls : c.pc = "write" /\ c.localContent # c.remoteContent


\* C36: a configuration that a load returns from the cache, fresh or as the
\* fallback of a failed fetch, is the configuration of the document held by
\* the remote configuration URL that was configured when the load was called.
C36_ServedFromConfiguredUrl ==
    (/\ last.op = "load"
     /\ last.outcome \in {"cached", "fallback"}
     /\ remoteConfig # Null)
        => remoteConfig = ValidateStructure(JSONParse(ConfigAt(load.url)))


\* C37: from the start of a run on, its confirmAll never goes from true to
\* false, and it changes only in the step in which a prompt of that run is
\* answered "Yes to All", from false to true; that answer sets it at once.
\* Every other step (another answer, a dismissed prompt, a read that finds
\* the content identical, a fetch, an update or a write that fails or
\* succeeds) leaves it as it was.
C37_ConfirmAllMonotone ==
    [][\A r \in Runs :
          run[r].pc # "idle" =>
              /\ run[r].confirmAll => run'[r].confirmAll
              /\ (run'[r].confirmAll # run[r].confirmAll) =>
                    /\ last'.run = r
                    /\ last'.op = "prompt"
                    /\ last'.ans = "Yes to All"
              /\ \A c \in run[r].calls :
                    (Stepped(r, c, "prompt") /\ last'.ans = "Yes to All"
                        /\ c.hasSession) => run'[r].confirmAll
              /\ (\/ last'.run # r
                  \/ last'.op # "prompt"
                  \/ last'.ans # "Yes to All") =>
                    run'[r].confirmAll = run[r].confirmAll
      ]_vars

\* C37 witness: confirmAll of a run was set by "Yes to All" and a fetch of
\* that run has just failed, leaving it set.
C37_Witness ==
    /\ last.run = 1 /\ last.op = "fetch" /\ ~last.ok
    /\ last.outcome = "error"
    /\ run[1].confirmAll
    /\ run[1].answered.ans = "Yes to All"


\* C38: a run calls syncInstructions at most once for a pair of a root and a
\* source (a pair that was fetched is not fetched again, so there are never
\* more fetched pairs than roots times sources), one call at a time; a call
\* only moves forward through fetch, read, prompt, update and write, so that
\* it fetches, prompts and writes at most once; and when every external call
\* returns or fails, a run that has started comes to its end.
C38_BoundedAndTerminates ==
    /\ [][\A r \in Runs :
            LET Rank(pc) == CASE pc = "fetch" -> 1 [] pc = "read" -> 2
                              [] pc = "prompt" -> 3 [] pc = "update" -> 4
                              [] pc = "write" -> 5
            IN
            /\ (last'.run = r /\ last'.op = "call" /\ run'[r] # run[r]) =>
                  /\ <<last'.root, last'.src>> \notin run[r].fetched
                  /\ run[r].calls = {}
            /\ Cardinality(run'[r].fetched)
                  <= Len(workspaceFolders) * Len(run'[r].sources)
            /\ Cardinality(run'[r].calls) <= 1
            /\ \A c \in run[r].calls : \A c2 \in Continued(r, c) :
                  c2 # c => Rank(c2.pc) > Rank(c.pc)
            /\ \A c \in run[r].calls :
                  (fs' # fs /\ last'.run = r) => c.pc = "write"
         ]_vars
    /\ \A r \in Runs : (run[r].pc # "idle") ~> (run[r].pc = "done")

\* C38 witness: a run over two roots has ended after it fetched every
\* eligible pair, at least three, asked and wrote.
C38_Witness ==
    /\ run[1].pc = "done"
    /\ run[1].fetched = Eligible(1)
    /\ Cardinality(run[1].fetched) >= 3
    /\ run[1].answered.ans = "Yes"
    /\ last.op = "next" /\ last.root = 2


\* C39: the cache changes only when a fetched document was parsed, and then
\* holds the configuration returned and the time of that step, and when the
\* set-remote-config command clears it.  A load that ends in a fallback (the
\* request failed, the validator rejected the answer, or the text did not
\* parse) leaves the cache as it was, value and timestamp; and when a load
\* has fallen back to a cache that is older than the cache duration, a load
\* called next that is not forced, with a URL configured, requests the
\* document again.
C39_CacheChangesOnlyOnSuccessOrClear ==
    [][/\ (remoteConfigCache' # remoteConfigCache) =>
             \/ /\ LoadReturned
                /\ last'.outcome = "fetched"
                /\ remoteConfigCache' # Null
                /\ remoteConfigCache' =
                      [config |-> remoteConfig', timestamp |-> now]
             \/ /\ command.pc = "clear" /\ command'.pc = "idle"
                /\ remoteConfigCache' = Null
       /\ (LoadReturned /\ last'.outcome # "fetched") =>
             /\ last'.outcome = "fallback"
             /\ remoteConfigCache' = remoteConfigCache
       /\ (LoadReturned
             /\ (~last'.ok \/ last'.content \in {DocBroken, DocApiError})) =>
             /\ last'.outcome = "fallback"
             /\ remoteConfigCache' = remoteConfigCache
       /\ (/\ last.op = "load" /\ last.outcome = "fallback"
           /\ remoteConfigCache # Null
           /\ now - remoteConfigCache.timestamp >= DurationMs
           /\ LoadCalled /\ ~load'.forceRefresh
           /\ Len(remoteConfigUrl) > 0) =>
             /\ load'.pc = "fetching"
             /\ remoteConfigCache' = remoteConfigCache
      ]_vars

\* C39 witness: a load that was not forced has just fallen back to a cache
\* filled two seconds earlier, older than the cache duration, and the cache
\* still holds that configuration and its timestamp.
C39_Witness ==
    /\ last.op = "load" /\ last.outcome = "fallback"
    /\ ~load.forceRefresh /\ load.pc = "idle"
    /\ remoteConfigCache # Null
    /\ remoteConfigCache.timestamp = 0
    /\ now = 2 * MsPerSecond
    /\ DurationMs = 2 * MsPerSecond
    /\ remoteConfig = remoteConfigCache.config

=============================================================================
